---------------------------- MODULE Spec2Model ----------------------------
(***************************************************************************)
(* Boba CLI: the local proxy (package proxy), its parameter auto-fill      *)
(* (AutoFillParams), and the stdio JSON-RPC bridge (package mcp).          *)
(*                                                                         *)
(* Seven specifications share the module:                                  *)
(*   SpecFill    AutoFillParams applied to bounded (tool, args, tokens)    *)
(*   SpecCall    the proxy's HTTP handlers, one position per handler       *)
(*   SpecBridge  the bridge's read loop against a proxy                    *)
(*   SpecAuth    the operations of package auth called one after another   *)
(*   SpecLog     handlers as concurrent producers of the log queue         *)
(*   SpecStream  handleStream copying an event stream to one client        *)
(*   SpecOutbound  the requests that carry credentials or bearer tokens    *)
(* Strings whose characters the code inspects are sequences of one-        *)
(* character strings; opaque names (tool names, keys) are TLA+ strings.    *)
(***************************************************************************)
EXTENDS Integers, Sequences, FiniteSets, TLC

VARIABLES
    \* ---- AutoFillParams (SpecFill)
    fTool,      \* toolName
    fArgsIn,    \* the caller's argument map, as received
    fArgs,      \* the argument map, mutated in place
    fTokens,    \* *config.AuthTokens passed in (NoTokens = nil)
    fCount,     \* number of applications of AutoFillParams so far
    \* ---- package config / auth (SpecCall)
    store,      \* cfg.Tokens and the keyring's access/refresh tokens
    creds,      \* credentials configured (cfg.Credentials and the agent secret)
    now,        \* time.Now(), in seconds
    \* ---- package auth called directly (SpecAuth)
    alog,       \* the calls made so far: operation, inputs and result
    \* ---- concurrent producers of log entries (SpecLog)
    prod,       \* each producer's position and count of handled requests
    reads,      \* entries the consumer has taken
    \* ---- ProxyServer (SpecCall)
    sessionToken,   \* s.sessionToken
    requestCount,   \* s.requestCount
    logChan,        \* s.logChan, the buffered channel's content
    calls,          \* requests accepted so far
    pc,             \* position of each request handler
    req,            \* the request each handler serves
    tok,            \* handler-local tokens
    hist,           \* what each handler did for its request
    \* ---- mcp.Bridge (SpecBridge)
    bTok,       \* b.sessionToken
    ring,       \* the Credential Store's session-token entry
    proxyTok,   \* the running proxy's session token ("" when none runs)
    restarts,   \* proxy restarts so far
    stdin,      \* lines not yet read
    stdout,     \* responses written
    stderr,     \* diagnostics written
    bpc,        \* position of Run
    bcur,       \* the line being served
    bh,         \* what the bridge did for that line
    \* ---- handleStream (SpecStream)
    spc,          \* position of handleStream
    sstatus,      \* status written to the client (0: none yet)
    upConn,       \* the upstream connection: "none", "open", "closed"
    backendSent,  \* chunks the backend has written so far
    backendEnd,   \* how the backend ended the stream ("no": it has not)
    inFlight,     \* chunks written by the backend, not yet read
    held,         \* the chunk in buf, read and not yet written (0: none)
    clientOpen,   \* the client connection is open
    delivered,    \* chunks written and flushed to the client
    \* ---- outbound requests (SpecOutbound)
    authURL,    \* config.GetAuthURL()
    mcpURL,     \* config.GetMCPURL()
    wire,       \* the requests sent, in order
    olog,       \* the operations that returned, with their results
    opc,        \* position of the running operation
    oloc,       \* its locals
    logged,     \* log messages, LogEntry values and bridge stderr lines
    \* ---- the consumer of log entries (SpecListen)
    received,   \* the entries of the watched call's handler the consumer got
    bursts,     \* bursts of entries sent by other handlers so far
    \* ---- SetTokens and GetTokens running concurrently (SpecRace)
    wpc,        \* position of each handler inside Authenticate / SetTokens
    wtok,       \* the tokens each handler took from its response
    gloc,       \* position and locals of the handler inside GetTokens
    seen        \* the records GetTokens returned

fillVars == <<fTool, fArgsIn, fArgs, fTokens, fCount>>
authVars == <<store, creds, now>>
proxyVars == <<sessionToken, requestCount, logChan, calls, pc, req, tok, hist>>

bridgeVars == <<bTok, ring, proxyTok, restarts, stdin, stdout, stderr, bpc, bcur, bh>>

logVars == <<prod, reads>>

streamVars == <<spc, sstatus, upConn, backendSent, backendEnd, inFlight, held,
                clientOpen, delivered>>

outVars == <<authURL, mcpURL, wire, olog, opc, oloc, logged>>

listenVars == <<received, bursts>>

raceVars == <<wpc, wtok, gloc, seen>>

vars == <<fillVars, authVars, proxyVars, bridgeVars, alog, logVars, streamVars,
          outVars, listenVars, raceVars>>

-----------------------------------------------------------------------------
(* Strings as character sequences *)

Rep(c, n) == [i \in 1..n |-> c]

Str_me == <<"m", "e">>
Str_self == <<"s", "e", "l", "f">>
Str_0x == <<"0", "x">>
Str_solana == <<"s", "o", "l", "a", "n", "a">>
Str_myWalletEvm == <<"m", "y", "-", "w", "a", "l", "l", "e", "t", "-", "e", "v", "m">>
Str_myWalletSvm == <<"m", "y", "-", "w", "a", "l", "l", "e", "t", "-", "s", "v", "m">>

UpperChars == <<"A", "B", "C", "D", "E", "F", "G", "H", "I", "J", "K", "L", "M",
                "N", "O", "P", "Q", "R", "S", "T", "U", "V", "W", "X", "Y", "Z">>
LowerChars == <<"a", "b", "c", "d", "e", "f", "g", "h", "i", "j", "k", "l", "m",
                "n", "o", "p", "q", "r", "s", "t", "u", "v", "w", "x", "y", "z">>

\* strings.ToLower, on ASCII
ToLowerChar(c) ==
    IF \E i \in 1..Len(UpperChars) : UpperChars[i] = c
    THEN LowerChars[CHOOSE i \in 1..Len(UpperChars) : UpperChars[i] = c]
    ELSE c

ToLower(s) == [i \in 1..Len(s) |-> ToLowerChar(s[i])]

\* strings.HasPrefix
HasPrefix(s, p) == Len(s) >= Len(p) /\ SubSeq(s, 1, Len(p)) = p

\* the character class of base58Re: [1-9A-HJ-NP-Za-km-z]
Base58Chars ==
    {"1", "2", "3", "4", "5", "6", "7", "8", "9"}
    \cup {"A", "B", "C", "D", "E", "F", "G", "H"}
    \cup {"J", "K", "L", "M", "N"}
    \cup {"P", "Q", "R", "S", "T", "U", "V", "W", "X", "Y", "Z"}
    \cup {"a", "b", "c", "d", "e", "f", "g", "h", "i", "j", "k"}
    \cup {"m", "n", "o", "p", "q", "r", "s", "t", "u", "v", "w", "x", "y", "z"}

\* regexp `^1+$`
allOnesRe(s) == Len(s) >= 1 /\ \A i \in 1..Len(s) : s[i] = "1"
\* regexp `^0+$`
allZerosRe(s) == Len(s) >= 1 /\ \A i \in 1..Len(s) : s[i] = "0"
\* regexp `^[1-9A-HJ-NP-Za-km-z]+$`
base58Re(s) == Len(s) >= 1 /\ \A i \in 1..Len(s) : s[i] \in Base58Chars

-----------------------------------------------------------------------------
(* Go values of type any held in the argument map *)

Absent == [t |-> "absent"]            \* key not in the map
StrV(s) == [t |-> "str", s |-> s]     \* a JSON string
NumV(n) == [t |-> "num", n |-> n]     \* a JSON number (float64)

\* val, _ := args[key].(string): the zero value "" unless a string is held
AsString(v) == IF v.t = "str" THEN v.s ELSE << >>
\* val, ok := args[key].(string)
IsString(v) == v.t = "str"

-----------------------------------------------------------------------------
(* Allowlists *)

userIDTools ==
    {"get_portfolio", "get_portfolio_summary", "get_portfolio_pnl",
     "get_trade_history", "get_pnl_chart", "get_user_xp", "get_transfers",
     "get_wallet_balance", "get_limit_orders", "get_dca_orders",
     "get_twap_orders", "get_positions", "create_limit_order",
     "cancel_limit_order", "get_user_swaps", "refresh_native_balances",
     "start_portfolio_stream", "get_portfolio_price_updates",
     "stop_portfolio_stream"}

swapTools == {"get_swap_price", "get_swap_quote", "execute_swap", "execute_trade"}

walletParams ==
    {"wallet", "wallet_address", "walletAddress", "evm_address", "taker",
     "from_address", "fromAddress", "solana_address"}

\* strings.Contains(param, "solana"), over the parameter names of walletParams
ContainsSolana(param) == param \in {"solana_address"}

UserIDKeys == {"user_id", "userId"}
SwapKeys == {"from_address", "fromAddress", "taker"}
ArgKeys == UserIDKeys \cup walletParams \cup {"chain"}

SolanaChainID == 1399811149

-----------------------------------------------------------------------------
(* Fake-ID classification and chain detection *)

\* IsFakeID without the Solana-address clause
IsFakeID_NoBase58(id) ==
    \/ id = << >>
    \/ allOnesRe(id)
    \/ allZerosRe(id)
    \/ id = Str_me \/ id = Str_self
    \/ (HasPrefix(id, Str_0x) /\ Len(id) = 42)

IsFakeID(id) ==
    \/ id = << >>
    \/ allOnesRe(id)
    \/ allZerosRe(id)
    \/ id = Str_me \/ id = Str_self
    \/ (HasPrefix(id, Str_0x) /\ Len(id) = 42)
    \/ (Len(id) >= 32 /\ Len(id) <= 44 /\ base58Re(id))

IsSolanaChain(chain) ==
    CASE chain.t = "num" -> chain.n = SolanaChainID
      [] chain.t = "str" -> ToLower(chain.s) = Str_solana
      [] OTHER -> FALSE

-----------------------------------------------------------------------------
(* AutoFillParams *)

NoTokens == [nil |-> TRUE]

\* step 1 applied to every tool
FillUserID_AnyTool(toolName, args, tokens) ==
    [k \in ArgKeys |->
        IF k \in UserIDKeys
           /\ (AsString(args[k]) = << >> \/ IsFakeID(AsString(args[k])))
        THEN StrV(tokens.AgentID)
        ELSE args[k]]

\* 1. user_id / userId for user-scoped tools
FillUserID(toolName, args, tokens) ==
    IF toolName \in userIDTools
    THEN [k \in ArgKeys |->
            IF k \in UserIDKeys
               /\ (AsString(args[k]) = << >> \/ IsFakeID(AsString(args[k])))
            THEN StrV(tokens.AgentID)
            ELSE args[k]]
    ELSE args

\* the placeholder test without "self"
IsWalletPlaceholder_NoSelf(val) ==
    val \in {Str_myWalletEvm, Str_myWalletSvm, Str_me}

\* val == "my-wallet-evm" || val == "my-wallet-svm" || val == "me" || val == "self"
IsWalletPlaceholder(val) ==
    val \in {Str_myWalletEvm, Str_myWalletSvm, Str_me, Str_self}

\* step 2 rewriting the my-wallet-* placeholders to "me" instead of
\* resolving them
FillWalletParams_AliasToMe(args, tokens, solana) ==
    [k \in ArgKeys |->
        IF k \in walletParams /\ IsString(args[k]) /\ IsWalletPlaceholder(args[k].s)
        THEN IF args[k].s \in {Str_myWalletEvm, Str_myWalletSvm}
             THEN StrV(Str_me)
             ELSE IF solana \/ ContainsSolana(k)
             THEN StrV(tokens.SolanaAddress)
             ELSE StrV(tokens.EVMAddress)
        ELSE args[k]]

\* 2. wallet address parameters; solana is IsSolanaChain(args["chain"])
FillWalletParams(args, tokens, solana) ==
    [k \in ArgKeys |->
        IF k \in walletParams /\ IsString(args[k]) /\ IsWalletPlaceholder(args[k].s)
        THEN IF solana \/ ContainsSolana(k)
             THEN StrV(tokens.SolanaAddress)
             ELSE StrV(tokens.EVMAddress)
        ELSE args[k]]

\* 3. swap tool from-address / taker
FillSwapAddress(toolName, args, tokens, solana) ==
    IF toolName \in swapTools
    THEN [k \in ArgKeys |->
            IF k \in SwapKeys
               /\ (AsString(args[k]) = << >> \/ IsFakeID(AsString(args[k])))
            THEN IF solana THEN StrV(tokens.SolanaAddress)
                           ELSE StrV(tokens.EVMAddress)
            ELSE args[k]]
    ELSE args

AutoFillParams(toolName, args, tokens) ==
    IF tokens = NoTokens
    THEN args
    ELSE LET a1 == FillUserID(toolName, args, tokens)
             solana == IsSolanaChain(a1["chain"])
             a2 == FillWalletParams(a1, tokens, solana)
         IN  FillSwapAddress(toolName, a2, tokens, solana)

-----------------------------------------------------------------------------
(* SpecFill: AutoFillParams over bounded inputs *)

\* identity held by the authenticated tokens
AgentIDA == <<"a", "g", "e", "n", "t", "-", "A">>
EVMAddressA == Str_0x \o Rep("a", 40)
SolanaAddressA == Rep("S", 44)

\* the identity fields of config.AuthTokens
IdentityA ==
    [AgentID |-> AgentIDA, AgentName |-> "agent-A", EVMAddress |-> EVMAddressA,
     SolanaAddress |-> SolanaAddressA, SubOrganizationID |-> "sub-A"]

\* config.AuthTokens; access and refresh tokens are numbered, 0 is "";
\* ExpiresAt is AccessTokenExpiresAt
AuthTokens(access, refresh, exp, rexp, ident) ==
    [AccessToken |-> access, RefreshToken |-> refresh, ExpiresAt |-> exp,
     RefreshExpiresAt |-> rexp,
     AgentID |-> ident.AgentID, AgentName |-> ident.AgentName,
     EVMAddress |-> ident.EVMAddress, SolanaAddress |-> ident.SolanaAddress,
     SubOrganizationID |-> ident.SubOrganizationID]

\* tokens of identity A whose refresh token expires with the access token
MkTokens(access, refresh, exp) == AuthTokens(access, refresh, exp, exp, IdentityA)

TokensA == MkTokens(1, 1, 0)

\* tokens of an authenticate response that named no agent and no wallets
TokensBlank ==
    AuthTokens(1, 1, 0, 0,
               [AgentID |-> << >>, AgentName |-> "", EVMAddress |-> << >>,
                SolanaAddress |-> << >>, SubOrganizationID |-> ""])

\* well-formed values a caller may supply
Str_vitalik == <<"v", "i", "t", "a", "l", "i", "k", ".", "e", "t", "h">>
Str_sol == <<"s", "o", "l">>
EVMAddressOther == Str_0x \o Rep("b", 40)
SolanaAddressOther == Rep("T", 40)

\* strings offered as user_id / userId
IDStrings ==
    { << >>, Str_me, Str_self, Str_vitalik, AgentIDA,
      <<"1">>, Rep("1", 12), <<"0">>, Rep("0", 6), <<"1", "0">>,
      EVMAddressOther,                 \* 0x + 40 hex digits
      Str_0x \o Rep("z", 40),          \* 42 characters, 0x prefix, not hex
      Str_0x \o Rep("b", 39),          \* 41 characters
      <<"0", "X">> \o Rep("b", 40),    \* upper-case prefix
      Rep("T", 32), Rep("T", 44),      \* base58, at the length limits
      Rep("T", 31), Rep("T", 45),      \* base58, outside them
      Rep("T", 31) \o <<"l">>,         \* 32 characters, one not base58
      SolanaAddressOther }

IDValues == {Absent, NumV(7)} \cup {StrV(s) : s \in IDStrings}
IDValuesSmall == {Absent, StrV(Str_vitalik), StrV(Str_me)}

\* values offered for a wallet parameter
WalletValues ==
    {NumV(7)} \cup
    {StrV(s) : s \in { << >>, Str_me, Str_self, Str_myWalletEvm, Str_myWalletSvm,
                       Str_vitalik, EVMAddressOther, SolanaAddressOther,
                       EVMAddressA, SolanaAddressA }}

\* values offered as chain
ChainValues ==
    {Absent, NumV(SolanaChainID), NumV(1),
     StrV(<<"S", "o", "l", "a", "n", "a">>), StrV(<<"S", "O", "L">>),
     StrV(<<"e", "t", "h", "e", "r", "e", "u", "m">>)}

ToolPool == userIDTools \cup swapTools \cup {"search_tokens", "get_token_info"}

EmptyArgs == [k \in ArgKeys |-> Absent]

\* argument maps: the identity field varied over every value with no wallet
\* field, or one wallet field varied over every value with a small identity pool
ArgsPool ==
    {[[EmptyArgs EXCEPT !["chain"] = c] EXCEPT ![ik] = iv] :
        c \in ChainValues, ik \in UserIDKeys, iv \in IDValues}
    \cup
    {[[[EmptyArgs EXCEPT !["chain"] = c] EXCEPT !["user_id"] = iv] EXCEPT ![wk] = wv] :
        c \in ChainValues, iv \in IDValuesSmall, wk \in walletParams, wv \in WalletValues}

MaxFills == 2

\* one call AutoFillParams(toolName, args, tokens)
ApplyAutoFill ==
    /\ fCount < MaxFills
    /\ fArgs' = AutoFillParams(fTool, fArgs, fTokens)
    /\ fCount' = fCount + 1
    /\ UNCHANGED <<fTool, fArgsIn, fTokens>>
    /\ UNCHANGED <<authVars, proxyVars, bridgeVars, alog, logVars, streamVars, outVars,
                   listenVars, raceVars>>

-----------------------------------------------------------------------------
(* Claims about AutoFillParams (SpecFill) *)

Chars(s) == {s[i] : i \in 1..Len(s)}
HexChars ==
    {"0", "1", "2", "3", "4", "5", "6", "7", "8", "9",
     "a", "b", "c", "d", "e", "f", "A", "B", "C", "D", "E", "F"}

Filled == fCount >= 1 /\ fTokens # NoTokens

\* the incoming values C5 lists: absent, empty, "me", "self", only '1's, only
\* '0's, 42 characters with a 0x prefix, 32 to 44 base58 characters
C5_Listed(v) ==
    \/ v = Absent
    \/ /\ v.t = "str"
       /\ \/ Len(v.s) = 0
          \/ v.s = <<"m", "e">>
          \/ v.s = <<"s", "e", "l", "f">>
          \/ Chars(v.s) = {"1"}
          \/ Chars(v.s) = {"0"}
          \/ (Len(v.s) = 42 /\ v.s[1] = "0" /\ v.s[2] = "x")
          \/ (Len(v.s) \in 32..44 /\ Chars(v.s) \subseteq Base58Chars)

\* C5: for a tool of the user-identity allowlist, an incoming user_id/userId
\* that is absent, empty, "me", "self", all '1's, all '0's, a 42-character
\* 0x-prefixed string or a 32..44 character base58 string equals the
\* authenticated agent ID after AutoFillParams.
C5_FakeUserIDReplaced ==
    (Filled /\ fTool \in userIDTools) =>
        \A k \in UserIDKeys :
            C5_Listed(fArgsIn[k]) => fArgs[k] = StrV(fTokens.AgentID)

C5_Witness ==
    /\ Filled /\ fTool = "get_trade_history"
    /\ fArgsIn["user_id"] = StrV(Rep("T", 32))
    /\ fArgs["user_id"] = StrV(AgentIDA)

\* C6: for a tool of the user-identity allowlist, whatever user_id/userId the
\* caller supplied, the field equals the authenticated agent ID after
\* AutoFillParams.
C6_AlwaysOverwritten ==
    (Filled /\ fTool \in userIDTools) =>
        \A k \in UserIDKeys : fArgs[k] = StrV(fTokens.AgentID)

\* an explicit, valid wallet address: 0x and 40 hex digits, or a base58
\* Solana address
C7_ValidAddress(v) ==
    /\ v.t = "str"
    /\ \/ (Len(v.s) = 42 /\ SubSeq(v.s, 1, 2) = <<"0", "x">>
           /\ Chars(SubSeq(v.s, 3, 42)) \subseteq HexChars)
       \/ (Len(v.s) \in 32..44 /\ Chars(v.s) \subseteq Base58Chars)

\* C7: for a swap tool, a taker/from_address/fromAddress holding an explicit,
\* valid wallet address is left unchanged by AutoFillParams.
C7_ValidAddressKept ==
    (Filled /\ fTool \in swapTools) =>
        \A k \in SwapKeys :
            C7_ValidAddress(fArgsIn[k]) => fArgs[k] = fArgsIn[k]

\* the strings C26 lists
C26_Listed(id) ==
    \/ Len(id) = 0
    \/ Chars(id) = {"1"}
    \/ Chars(id) = {"0"}
    \/ id = <<"m", "e">>
    \/ id = <<"s", "e", "l", "f">>
    \/ (Len(id) = 42 /\ SubSeq(id, 1, 2) = <<"0", "x">>
        /\ Chars(SubSeq(id, 3, 42)) \subseteq HexChars)
    \/ (Len(id) \in 32..44 /\ Chars(id) \subseteq Base58Chars)

\* C26: IsFakeID returns a boolean for every string, true exactly when the
\* string is empty, only '1's, only '0's, "me", "self", "0x" followed by 40
\* hexadecimal digits, or 32 to 44 base58 characters.
C26_IsFakeIDExactly ==
    (Filled /\ fTool \in userIDTools) =>
        \A k \in UserIDKeys :
            fArgsIn[k].t = "str" =>
                /\ IsFakeID(fArgsIn[k].s) \in BOOLEAN
                /\ IsFakeID(fArgsIn[k].s) <=> C26_Listed(fArgsIn[k].s)

\* C27: IsSolanaChain is true exactly for the number 1399811149 and for a
\* string equal, ignoring case, to "solana" or "sol".
C27_IsSolanaChainExactly ==
    LET chain == fArgsIn["chain"]
    IN  Filled =>
            (IsSolanaChain(chain) <=>
                \/ chain = NumV(1399811149)
                \/ (chain.t = "str" /\ ToLower(chain.s) \in {Str_solana, Str_sol}))

\* the four placeholder values of C28
C28_Placeholder(v) ==
    v.t = "str" /\ v.s \in {Str_myWalletEvm, Str_myWalletSvm, Str_me, Str_self}

C29_OtherToolsFrame ==
    fCount >= 1 =>
        /\ fTokens = NoTokens => fArgs = fArgsIn
        /\ (fTool \notin userIDTools /\ fTool \notin swapTools) =>
              \A k \in ArgKeys :
                  fArgs[k] # fArgsIn[k] =>
                      k \in walletParams /\ C28_Placeholder(fArgsIn[k])

\* a fake user_id of a tool in neither allowlist was left as supplied while
\* a placeholder wallet was filled
C29_Witness ==
    /\ Filled
    /\ fTool = "get_token_info"
    /\ fArgsIn["user_id"] = StrV(Str_me)
    /\ fArgs["user_id"] = StrV(Str_me)
    /\ fArgsIn["wallet"] = StrV(Str_myWalletSvm)
    /\ fArgs["wallet"] # fArgsIn["wallet"]

\* C30: a second AutoFillParams with the same tool and tokens, applied to
\* the result of the first, leaves the map as the first left it.
C30_Idempotent ==
    [][fCount >= 1 => fArgs' = fArgs]_vars

\* AutoFillParams has been applied twice to a map the first application
\* changed
C30_Witness ==
    /\ fCount = 2
    /\ fTokens # NoTokens
    /\ fArgs # fArgsIn
    /\ fArgs = AutoFillParams(fTool, fArgs, fTokens)


-----------------------------------------------------------------------------
(* package config: the token store *)

Skew == 60

\* cfg.Tokens (has, exp, rexp, ident), the keyring (keyringOK, access,
\* refresh) and the environment (envAccess: BOBA_ACCESS_TOKEN, envRefresh:
\* BOBA_REFRESH_TOKEN)
NoStore ==
    [has |-> FALSE, exp |-> 0, rexp |-> 0, ident |-> IdentityA,
     keyringOK |-> TRUE, access |-> 0, refresh |-> 0,
     envAccess |-> 0, envRefresh |-> 0]

\* secureGet: the keyring's value, else the environment's; 0 is the error
secureGet(st, account) ==
    IF st.keyringOK /\ st[account] # 0
    THEN st[account]
    ELSE IF account = "access" THEN st.envAccess ELSE st.envRefresh

\* secureSet: the keyring's value afterwards
secureSet(st, account, value) == IF st.keyringOK THEN value ELSE st[account]

\* GetTokens returns no error
GetTokensOK(st) == st.has /\ secureGet(st, "access") # 0

GetTokens(st) ==
    AuthTokens(secureGet(st, "access"), secureGet(st, "refresh"),
               st.exp, st.rexp, st.ident)

SetTokens(st, tokens) ==
    [st EXCEPT
        !.has = TRUE,
        !.exp = tokens.ExpiresAt,
        !.rexp = tokens.RefreshExpiresAt,
        !.ident = [AgentID |-> tokens.AgentID, AgentName |-> tokens.AgentName,
                   EVMAddress |-> tokens.EVMAddress,
                   SolanaAddress |-> tokens.SolanaAddress,
                   SubOrganizationID |-> tokens.SubOrganizationID],
        !.access = secureSet(st, "access", tokens.AccessToken),
        !.refresh = IF tokens.RefreshToken # 0
                    THEN secureSet(st, "refresh", tokens.RefreshToken)
                    ELSE st.refresh]

IsTokenExpired(st, t) == ~st.has \/ t > st.exp - Skew

-----------------------------------------------------------------------------
(* package auth.  Each operation returns                                   *)
(*   [ok, tokens, store, posts]                                            *)
(* the result, the token store afterwards, and the endpoints it posted     *)
(* to.  The backend numbers the access tokens it issues, one above the     *)
(* one the CLI can read.  out names what the backend answers:              *)
(*   out.refresh, out.auth, out.auth2 \in {"ok", "fail"}                   *)
(* ("fail": transport error, non-200 status or empty access token).        *)

TokenLife == 120

AuthResult(ok, tokens, st, posts) ==
    [ok |-> ok, tokens |-> tokens, store |-> st, posts |-> posts]

\* the number of the next token the backend issues
Issued(st) == secureGet(st, "access") + 1

\* Authenticate posting without credentials
Authenticate_NoCredentialsTest(st, cr, t, answer) ==
    IF answer # "ok"
    THEN AuthResult(FALSE, NoTokens, st, <<"authenticate">>)
    ELSE LET tokens == AuthTokens(Issued(st), Issued(st), t + TokenLife,
                                  t + 2 * TokenLife, IdentityA)
         IN  AuthResult(TRUE, tokens, SetTokens(st, tokens), <<"authenticate">>)

Authenticate(st, cr, t, answer) ==
    IF ~cr
    THEN AuthResult(FALSE, NoTokens, st, << >>)
    ELSE IF answer # "ok"
    THEN AuthResult(FALSE, NoTokens, st, <<"authenticate">>)
    ELSE LET tokens == AuthTokens(Issued(st), Issued(st), t + TokenLife,
                                  t + 2 * TokenLife, IdentityA)
         IN  AuthResult(TRUE, tokens, SetTokens(st, tokens), <<"authenticate">>)

\* RefreshTokens taking the refresh token from the response
RefreshTokens_NewRefresh(st, cr, t, out) ==
    IF ~GetTokensOK(st) \/ GetTokens(st).RefreshToken = 0
    THEN Authenticate(st, cr, t, out.auth)
    ELSE IF out.refresh # "ok"
    THEN AuthResult(FALSE, NoTokens, st, <<"refresh">>)
    ELSE LET existing == GetTokens(st)
             tokens == [existing EXCEPT !.AccessToken = Issued(st),
                                        !.RefreshToken = Issued(st),
                                        !.ExpiresAt = t + TokenLife]
         IN  AuthResult(TRUE, tokens, SetTokens(st, tokens), <<"refresh">>)

RefreshTokens(st, cr, t, out) ==
    IF ~GetTokensOK(st) \/ GetTokens(st).RefreshToken = 0
    THEN Authenticate(st, cr, t, out.auth)
    ELSE IF out.refresh # "ok"
    THEN AuthResult(FALSE, NoTokens, st, <<"refresh">>)
    ELSE LET existing == GetTokens(st)
             tokens == [existing EXCEPT !.AccessToken = Issued(st),
                                        !.ExpiresAt = t + TokenLife]
         IN  AuthResult(TRUE, tokens, SetTokens(st, tokens), <<"refresh">>)

EnsureAuthenticated(st, cr, t, out) ==
    IF ~IsTokenExpired(st, t) /\ GetTokensOK(st)
    THEN AuthResult(TRUE, GetTokens(st), st, << >>)
    ELSE LET r == RefreshTokens(st, cr, t, out)
         IN  IF r.ok
             THEN r
             ELSE LET a == Authenticate(r.store, cr, t, out.auth2)
                  IN  AuthResult(a.ok, a.tokens, a.store, r.posts \o a.posts)

AuthOutcomes == [refresh : {"ok", "fail"}, auth : {"ok", "fail"}, auth2 : {"ok", "fail"}]


-----------------------------------------------------------------------------
(* SpecAuth: the operations of package auth called one after another *)

MaxOps == 2
AuthTickStep == 45
AuthMaxTime == 90

AgentIDB == <<"a", "g", "e", "n", "t", "-", "B">>

\* the identity stored by an earlier login
IdentityB ==
    [AgentID |-> AgentIDB, AgentName |-> "agent-B", EVMAddress |-> EVMAddressOther,
     SolanaAddress |-> SolanaAddressOther, SubOrganizationID |-> "sub-B"]

\* token stores an earlier run can have left: with a keyring the tokens are
\* in it, without one they come from the environment
AuthStores ==
    {NoStore, [NoStore EXCEPT !.keyringOK = FALSE, !.envAccess = 1, !.envRefresh = 1]}
    \cup
    { [has |-> TRUE, exp |-> TokenLife, rexp |-> 2 * TokenLife, ident |-> i,
       keyringOK |-> TRUE, access |-> 1, refresh |-> r,
       envAccess |-> 0, envRefresh |-> 0] :
        i \in {IdentityA, IdentityB}, r \in {0, 1} }
    \cup
    { [has |-> TRUE, exp |-> TokenLife, rexp |-> 2 * TokenLife, ident |-> IdentityB,
       keyringOK |-> FALSE, access |-> 0, refresh |-> 0,
       envAccess |-> a, envRefresh |-> r] :
        a \in {0, 1}, r \in {0, 1} }

\* one call of op with the backend answering out
Called(op, out, r) ==
    /\ Len(alog) < MaxOps
    /\ alog' = Append(alog, [op |-> op, t |-> now, pre |-> store, out |-> out,
                             res |-> r])
    /\ store' = r.store
    /\ UNCHANGED <<creds, now>>
    /\ UNCHANGED <<fillVars, listenVars, raceVars, proxyVars, bridgeVars, logVars, streamVars, outVars>>

callAuthenticate ==
    \E out \in AuthOutcomes :
        /\ out.refresh = "ok" /\ out.auth2 = "ok"
        /\ Called("Authenticate", out, Authenticate(store, creds, now, out.auth))

callRefreshTokens ==
    \E out \in AuthOutcomes :
        /\ out.auth2 = "ok"
        /\ Called("RefreshTokens", out, RefreshTokens(store, creds, now, out))

callEnsureAuthenticated ==
    \E out \in AuthOutcomes :
        /\ out \in AuthOutcomes
        /\ Called("EnsureAuthenticated", out, EnsureAuthenticated(store, creds, now, out))

\* time passes between calls
AuthTick ==
    /\ now + AuthTickStep <= AuthMaxTime
    /\ now' = now + AuthTickStep
    /\ UNCHANGED <<store, creds, alog>>
    /\ UNCHANGED <<fillVars, listenVars, raceVars, proxyVars, bridgeVars, logVars, streamVars, outVars>>

NextAuth ==
    \/ callAuthenticate
    \/ callRefreshTokens
    \/ callEnsureAuthenticated
    \/ AuthTick

-----------------------------------------------------------------------------
(* Claims about package auth (SpecAuth) *)

\* a refresh token can be read from the store
RefreshHeld(st) == GetTokensOK(st) /\ GetTokens(st).RefreshToken # 0

\* the fields RefreshTokens is to leave alone, as GetTokens reads them
KeptFields(st) ==
    LET tokens == GetTokens(st)
    IN  [RefreshToken |-> tokens.RefreshToken,
         RefreshExpiresAt |-> tokens.RefreshExpiresAt,
         AgentID |-> tokens.AgentID, AgentName |-> tokens.AgentName,
         EVMAddress |-> tokens.EVMAddress, SolanaAddress |-> tokens.SolanaAddress,
         SubOrganizationID |-> tokens.SubOrganizationID]

\* C13: when a refresh token is held and the refresh request fails,
\* RefreshTokens itself falls back to Authenticate and returns its result;
\* when none is held it calls Authenticate without posting to the refresh
\* endpoint.
C13_RefreshFallsBack ==
    \A i \in 1..Len(alog) :
        LET e == alog[i]
            a == Authenticate(e.pre, creds, e.t, e.out.auth)
        IN  e.op = "RefreshTokens" =>
               /\ (RefreshHeld(e.pre) /\ e.out.refresh # "ok") =>
                      /\ e.res.ok = a.ok
                      /\ e.res.tokens = a.tokens
                      /\ e.res.store = a.store
               /\ ~RefreshHeld(e.pre) => e.res = a

\* C14: after a successful RefreshTokens, an EnsureAuthenticated issued
\* before the refreshed expiry minus 60 seconds returns the refreshed access
\* token and posts nothing.
C14_RefreshThenEnsure ==
    \A i \in 1..(Len(alog) - 1) :
        LET r == alog[i]
            e == alog[i + 1]
        IN  (/\ r.op = "RefreshTokens"
             /\ r.res.ok
             /\ e.op = "EnsureAuthenticated"
             /\ e.t < r.res.tokens.ExpiresAt - Skew) =>
               /\ e.res.ok
               /\ e.res.tokens.AccessToken = r.res.tokens.AccessToken
               /\ e.res.posts = << >>

\* C15 as stated: every successful RefreshTokens on stored tokens leaves the
\* refresh token, its expiry and the identity fields as they were read
\* before the call.
C15_AnySuccessKeepsFields ==
    \A i \in 1..Len(alog) :
        LET e == alog[i]
        IN  (e.op = "RefreshTokens" /\ e.res.ok /\ GetTokensOK(e.pre)) =>
               KeptFields(e.res.store) = KeptFields(e.pre)

\* C15: a RefreshTokens that held a refresh token and succeeded has posted
\* to the refresh endpoint only and leaves the refresh token, its expiry and
\* the identity fields as they were read before the call, in the store and
\* in the tokens it returns.
C15_RefreshKeepsFields ==
    \A i \in 1..Len(alog) :
        LET e == alog[i]
        IN  (e.op = "RefreshTokens" /\ e.res.ok /\ RefreshHeld(e.pre)) =>
               /\ e.res.posts = <<"refresh">>
               /\ KeptFields(e.res.store) = KeptFields(e.pre)
               /\ e.res.tokens.RefreshToken = GetTokens(e.pre).RefreshToken
               /\ e.res.tokens.AgentID = GetTokens(e.pre).AgentID
               /\ e.res.store.has

\* a refresh succeeded on a keyring store of the other identity and the
\* access token read back has changed
C15_Witness ==
    \E i \in 1..Len(alog) :
        LET e == alog[i]
        IN  /\ e.op = "RefreshTokens"
            /\ e.res.ok
            /\ RefreshHeld(e.pre)
            /\ e.pre.keyringOK
            /\ e.pre.ident = IdentityB
            /\ GetTokens(e.res.store).AccessToken # GetTokens(e.pre).AccessToken
            /\ GetTokens(e.res.store).ExpiresAt = e.t + TokenLife

\* EnsureAuthenticated returned the tokens it found in the store, without
\* refreshing or authenticating
ReturnedCached(e) ==
    /\ e.res.ok
    /\ e.res.posts = << >>
    /\ e.res.store = e.pre
    /\ e.res.tokens = GetTokens(e.pre)

\* C34: EnsureAuthenticated returns the cached tokens exactly while
\* now < accessTokenExpiresAt - 60 s; from now = accessTokenExpiresAt - 60 s
\* on, and without a stored expiry, it refreshes or re-authenticates.
C34_UsableOnlyBeforeSkew ==
    \A i \in 1..Len(alog) :
        LET e == alog[i]
        IN  e.op = "EnsureAuthenticated" =>
               (ReturnedCached(e) <=>
                   (GetTokensOK(e.pre) /\ e.t < e.pre.exp - Skew))

\* the requests among posts that went to endpoint
PostsTo(posts, endpoint) == Len(SelectSeq(posts, LAMBDA p : p = endpoint))

\* C38: one EnsureAuthenticated call that finds the tokens expired or
\* missing posts to the refresh endpoint at most once and to the
\* authenticate endpoint at most once, never to the refresh endpoint after
\* the authenticate endpoint, and fails only if authentication failed.
C38_OneRefreshOneAuthenticate ==
    \A i \in 1..Len(alog) :
        LET e == alog[i]
        IN  (e.op = "EnsureAuthenticated"
             /\ (IsTokenExpired(e.pre, e.t) \/ ~GetTokensOK(e.pre))) =>
                /\ PostsTo(e.res.posts, "refresh") <= 1
                /\ PostsTo(e.res.posts, "authenticate") <= 1
                /\ \A j, k \in 1..Len(e.res.posts) :
                       (e.res.posts[j] = "authenticate" /\ e.res.posts[k] = "refresh")
                           => k < j
                /\ ~e.res.ok => (~creds \/ "fail" \in {e.out.auth, e.out.auth2})

-----------------------------------------------------------------------------
(* package proxy: ProxyServer *)

Handlers == {"h1"}
MaxCalls == 2

LogChanCap == 100

\* the Authorization header value, in parts: "Bearer " and the rest
SessA == "session-A"
HeaderPool ==
    { << >>,                        \* header absent
      <<"Bearer ", SessA>>,
      <<SessA>>,                    \* no Bearer prefix
      <<"bearer ", SessA>>,
      <<"Bearer ">>,
      <<"Bearer ", "Bearer ", SessA>>,
      <<"Bearer ", "session-old">> } \* a previous proxy's token

\* strings.TrimPrefix
TrimPrefix(str, prefix) ==
    IF Len(str) > 0 /\ str[1] = prefix THEN Tail(str) ELSE str

\* withAuth accepting the header: IsAuthorized without the prefix test
IsAuthorized_NoPrefixTest(authHeader, sessTok) ==
    /\ authHeader # << >>
    /\ TrimPrefix(authHeader, "Bearer ") = <<sessTok>>

\* withAuth calls next(w, r)
IsAuthorized(authHeader, sessTok) ==
    /\ authHeader # << >>
    /\ LET token == TrimPrefix(authHeader, "Bearer ")
       IN  token # authHeader /\ token = <<sessTok>>

\* sendLog: a non-blocking send on the buffered channel
sendLog(q, entry) == IF Len(q) < LogChanCap THEN Append(q, entry) ELSE q

LogEntry(h, status) == [call |-> h, status |-> status]

\* IsAuthError that misses 403
IsAuthError_Only401(statusCode) == statusCode = 401

\* statusCode == http.StatusUnauthorized || statusCode == http.StatusForbidden
IsAuthError(statusCode) == statusCode = 401 \/ statusCode = 403

\* IsSuccess without the upper limit
IsSuccess_NoUpper(statusCode) == statusCode >= 200

\* statusCode >= 200 && statusCode < 300
IsSuccess(statusCode) == statusCode >= 200 /\ statusCode < 300

NoResp == [code |-> 0, body |-> "", requests |-> 0]
Resp(code, body) == [code |-> code, body |-> body, requests |-> 0]

\* what the backend may answer to a dispatch; code 0 is a transport error
BackendCodes == {0, 200, 401, 403, 500}

NoHist ==
    [ensure |-> 0,          \* calls of EnsureAuthenticated
     pre |-> NoStore,       \* the token store EnsureAuthenticated found
     at |-> 0,              \* the time of that call
     ens |-> AuthResult(FALSE, NoTokens, NoStore, << >>),  \* what it returned
     posts |-> << >>,       \* endpoints EnsureAuthenticated posted to
     reauth |-> << >>,      \* results of the handler's own Authenticate calls
     reposts |-> << >>,     \* endpoints those calls posted to
     reAt |-> 0,            \* the time of the handler's own Authenticate call
     sent |-> << >>,        \* backend dispatches: arguments and bearer token
     got |-> << >>,         \* backend responses received
     offered |-> << >>,     \* statuses handed to sendLog
     incs |-> 0,            \* calls of incrementRequests
     args |-> EmptyArgs,    \* the handler's argument map
     resp |-> NoResp]       \* the response written to the client

NoReq == [route |-> "", header |-> << >>, bodyOK |-> TRUE,
          tool |-> "", args |-> EmptyArgs]

\* tool calls offered to POST /call
CallInputs ==
    { [tool |-> "get_portfolio", args |-> [EmptyArgs EXCEPT !["user_id"] = StrV(Str_me)]],
      [tool |-> "execute_swap", args |-> [EmptyArgs EXCEPT !["taker"] = StrV(Str_myWalletEvm)]] }

Requests ==
    { [route |-> r, header |-> hd, bodyOK |-> TRUE, tool |-> "", args |-> EmptyArgs] :
        r \in {"/health", "/tools", "/stream"}, hd \in HeaderPool }
    \cup
    { [route |-> "/call", header |-> hd, bodyOK |-> b, tool |-> c.tool, args |-> c.args] :
        hd \in HeaderPool, b \in BOOLEAN, c \in CallInputs }

Protected == {"/tools", "/call", "/stream"}

\* the handler h ends with this response
Reply(h, resp, hh) ==
    /\ hist' = [hist EXCEPT ![h] = [hh EXCEPT !.resp = resp]]
    /\ pc' = [pc EXCEPT ![h] = "done"]

\* a request arrives at an idle handler
Arrive(h, r) ==
    /\ pc[h] = "idle"
    /\ calls < MaxCalls
    /\ calls' = calls + 1
    /\ req' = [req EXCEPT ![h] = r]

\* GET /health
handleHealth(h) ==
    \E r \in Requests :
        /\ r.route = "/health"
        /\ Arrive(h, r)
        /\ Reply(h, [code |-> 200, body |-> "ok", requests |-> requestCount], hist[h])
        /\ UNCHANGED <<alog, logVars, bridgeVars, fillVars, listenVars, raceVars, authVars, sessionToken, requestCount, logChan, tok, streamVars, outVars>>

\* withAuth answering 403
withAuthForbidden(h) ==
    \E r \in Requests :
        /\ r.route \in Protected
        /\ ~IsAuthorized(r.header, sessionToken)
        /\ Arrive(h, r)
        /\ Reply(h, Resp(403, "Forbidden"), hist[h])
        /\ UNCHANGED <<alog, logVars, bridgeVars, fillVars, listenVars, raceVars, authVars, sessionToken, requestCount, logChan, tok, streamVars, outVars>>

\* GET /tools, GET /stream: withAuth passes, the handler starts
handleProxyStart(h) ==
    \E r \in Requests :
        /\ r.route \in {"/tools", "/stream"}
        /\ IsAuthorized(r.header, sessionToken)
        /\ Arrive(h, r)
        /\ pc' = [pc EXCEPT ![h] = "ensure"]
        /\ UNCHANGED <<alog, logVars, bridgeVars, fillVars, listenVars, raceVars, authVars, sessionToken, requestCount, logChan, tok, hist, streamVars, outVars>>

\* POST /call: withAuth passes, the body does not decode
handleCallBadBody(h) ==
    \E r \in Requests :
        /\ r.route = "/call"
        /\ IsAuthorized(r.header, sessionToken)
        /\ ~r.bodyOK
        /\ Arrive(h, r)
        /\ Reply(h, Resp(400, "invalid request body"), hist[h])
        /\ UNCHANGED <<alog, logVars, bridgeVars, fillVars, listenVars, raceVars, authVars, sessionToken, requestCount, logChan, tok, streamVars, outVars>>

\* POST /call: withAuth passes, the body decodes, the pending entry is sent
handleCallStart(h) ==
    \E r \in Requests :
        /\ r.route = "/call"
        /\ IsAuthorized(r.header, sessionToken)
        /\ r.bodyOK
        /\ Arrive(h, r)
        /\ logChan' = sendLog(logChan, LogEntry(h, "pending"))
        /\ hist' = [hist EXCEPT ![h].offered = Append(@, "pending"),
                                ![h].args = r.args]
        /\ pc' = [pc EXCEPT ![h] = "ensure"]
        /\ UNCHANGED <<alog, logVars, bridgeVars, fillVars, listenVars, raceVars, authVars, sessionToken, requestCount, tok, streamVars, outVars>>

\* Finish answering with the first backend response
Finish_FirstResponse(h, hh, resp) ==
    /\ requestCount' = requestCount + 1
    /\ logChan' = sendLog(logChan,
                    LogEntry(h, IF IsSuccess(resp.code) THEN "success" ELSE "error"))
    /\ Reply(h, Resp(hh.got[1].code, hh.got[1].body),
             [hh EXCEPT !.incs = @ + 1,
                        !.offered = Append(@, IF IsSuccess(resp.code)
                                              THEN "success" ELSE "error")])

\* the terminal LogEntry and the response of handleCall once the backend has
\* answered with statusCode
Finish(h, hh, resp) ==
    /\ requestCount' = requestCount + 1
    /\ logChan' = sendLog(logChan,
                    LogEntry(h, IF IsSuccess(resp.code) THEN "success" ELSE "error"))
    /\ Reply(h, Resp(resp.code, resp.body),
             [hh EXCEPT !.incs = @ + 1,
                        !.offered = Append(@, IF IsSuccess(resp.code)
                                              THEN "success" ELSE "error")])

\* FailCall without the error LogEntry
FailCall_Unlogged(h, hh, code, msg) ==
    /\ Reply(h, Resp(code, msg), hh)
    /\ UNCHANGED <<requestCount, logChan>>

\* handleCall answering after an error LogEntry, without a backend status
FailCall(h, hh, code, msg) ==
    /\ logChan' = sendLog(logChan, LogEntry(h, "error"))
    /\ Reply(h, Resp(code, msg), [hh EXCEPT !.offered = Append(@, "error")])
    /\ UNCHANGED requestCount

\* doMCPCall(toolName, args, tokens) as recorded by the handler
Dispatched(hh, tokens) ==
    [hh EXCEPT !.sent = Append(@, [args |-> hh.args, bearer |-> tokens.AccessToken,
                                   evm |-> tokens.EVMAddress,
                                   solana |-> tokens.SolanaAddress,
                                   subOrg |-> tokens.SubOrganizationID])]

BackendResp(hh, code) ==
    [code |-> code, body |-> IF Len(hh.sent) = 0 THEN "body-1" ELSE "body-2"]

\* auth.EnsureAuthenticated() in handleTools, handleCall and handleStream
handleEnsure(h) ==
    /\ pc[h] = "ensure"
    /\ \E out \in AuthOutcomes :
         LET r == EnsureAuthenticated(store, creds, now, out)
             hh == [hist[h] EXCEPT !.ensure = @ + 1, !.posts = @ \o r.posts,
                                   !.pre = store, !.at = now, !.ens = r]
         IN  /\ store' = r.store
             /\ IF ~r.ok
                THEN /\ IF req[h].route = "/call"
                        THEN FailCall(h, hh, 401, "authentication failed")
                        ELSE /\ Reply(h, Resp(401, "authentication failed"), hh)
                             /\ UNCHANGED <<requestCount, logChan>>
                     /\ UNCHANGED tok
                ELSE /\ tok' = [tok EXCEPT ![h] = r.tokens]
                     /\ IF req[h].route = "/call"
                        THEN /\ hist' = [hist EXCEPT ![h] =
                                  [hh EXCEPT !.args =
                                      AutoFillParams(req[h].tool, hh.args, r.tokens)]]
                             /\ pc' = [pc EXCEPT ![h] = "dispatch"]
                        ELSE /\ hist' = [hist EXCEPT ![h] = hh]
                             /\ pc' = [pc EXCEPT ![h] = "forward"]
                     /\ UNCHANGED <<requestCount, logChan>>
    /\ UNCHANGED <<alog, logVars, bridgeVars, fillVars, listenVars, raceVars, creds, now, sessionToken, calls, req, streamVars, outVars>>

\* handleTools / handleStream: the backend request and the forwarded response
handleForward(h) ==
    /\ pc[h] = "forward"
    /\ \E code \in BackendCodes :
         LET hh == Dispatched(hist[h], tok[h])
             resp == BackendResp(hist[h], code)
         IN  IF code = 0
             THEN Reply(h, Resp(502, "upstream request failed"), hh)
             ELSE Reply(h, Resp(resp.code, resp.body), [hh EXCEPT !.got = Append(@, resp)])
    /\ UNCHANGED <<alog, logVars, bridgeVars, fillVars, listenVars, raceVars, authVars, sessionToken, requestCount, logChan, calls, req, tok, streamVars, outVars>>

\* handleCall: the first doMCPCall
handleCallDispatch(h) ==
    /\ pc[h] = "dispatch"
    /\ \E code \in BackendCodes :
         LET hh == Dispatched(hist[h], tok[h])
             resp == BackendResp(hist[h], code)
         IN  IF code = 0
             THEN FailCall(h, hh, 502, "upstream request failed")
             ELSE IF IsAuthError(code)
             THEN /\ hist' = [hist EXCEPT ![h] = [hh EXCEPT !.got = Append(@, resp)]]
                  /\ pc' = [pc EXCEPT ![h] = "reauth"]
                  /\ UNCHANGED <<requestCount, logChan>>
             ELSE Finish(h, [hh EXCEPT !.got = Append(@, resp)], resp)
    /\ UNCHANGED <<alog, logVars, bridgeVars, fillVars, listenVars, raceVars, authVars, sessionToken, calls, req, tok, streamVars, outVars>>

\* handleCall: auth.Authenticate() after a 401 / 403
handleCallReauth(h) ==
    /\ pc[h] = "reauth"
    /\ \E answer \in {"ok", "fail"} :
         LET a == Authenticate(store, creds, now, answer)
             hh == [hist[h] EXCEPT
                        !.reauth = Append(@, IF a.ok THEN "ok" ELSE "fail"),
                        !.reposts = @ \o a.posts, !.reAt = now]
         IN  /\ store' = a.store
             /\ IF a.ok
                THEN /\ tok' = [tok EXCEPT ![h] = a.tokens]
                     /\ hist' = [hist EXCEPT ![h] =
                            [hh EXCEPT !.args =
                                AutoFillParams(req[h].tool, hh.args, a.tokens)]]
                     /\ pc' = [pc EXCEPT ![h] = "retry"]
                     /\ UNCHANGED <<requestCount, logChan>>
                ELSE /\ Finish(h, hh, hh.got[Len(hh.got)])
                     /\ UNCHANGED tok
    /\ UNCHANGED <<alog, logVars, bridgeVars, fillVars, listenVars, raceVars, creds, now, sessionToken, calls, req, streamVars, outVars>>

\* handleCall: the second doMCPCall
handleCallRetry(h) ==
    /\ pc[h] = "retry"
    /\ \E code \in BackendCodes :
         LET hh == Dispatched(hist[h], tok[h])
             resp == BackendResp(hist[h], code)
         IN  IF code = 0
             THEN FailCall(h, hh, 502, "upstream request failed after retry")
             ELSE Finish(h, [hh EXCEPT !.got = Append(@, resp)], resp)
    /\ UNCHANGED <<alog, logVars, bridgeVars, fillVars, listenVars, raceVars, authVars, sessionToken, calls, req, tok, streamVars, outVars>>

\* the handler returns; it is free for the next request
handlerReturn(h) ==
    /\ pc[h] = "done"
    /\ pc' = [pc EXCEPT ![h] = "idle"]
    /\ req' = [req EXCEPT ![h] = NoReq]
    /\ tok' = [tok EXCEPT ![h] = NoTokens]
    /\ hist' = [hist EXCEPT ![h] = NoHist]
    /\ UNCHANGED <<alog, logVars, bridgeVars, fillVars, listenVars, raceVars, authVars, sessionToken, requestCount, logChan, calls, streamVars, outVars>>

\* how CallTool ends: what it did, the token store it leaves, the body it
\* returns ("" with an error) and its error ("" when nil)
CallToolEnd(hh, st, body, err) == [did |-> hh, store |-> st, body |-> body, err |-> err]

\* CallTool re-authenticating with RefreshTokens
CallTool_RefreshOnAuthError(tool, args, st, cr, t1, t2, out, codes, answer) ==
    LET e == EnsureAuthenticated(st, cr, t1, out)
        h0 == [NoHist EXCEPT !.ensure = 1, !.posts = e.posts, !.pre = st,
                             !.at = t1, !.ens = e, !.args = args]
    IN  IF ~e.ok
        THEN CallToolEnd(h0, e.store, "", "authentication failed")
        ELSE
        LET h1 == [h0 EXCEPT !.args = AutoFillParams(tool, args, e.tokens)]
            h2 == Dispatched(h1, e.tokens)
            resp1 == BackendResp(h1, codes[1])
        IN  IF codes[1] = 0
            THEN CallToolEnd(h2, e.store, "", "upstream request failed")
            ELSE
            LET h3 == [h2 EXCEPT !.got = Append(@, resp1)]
            IN  IF ~IsAuthError(codes[1])
                THEN IF IsSuccess(codes[1])
                     THEN CallToolEnd(h3, e.store, resp1.body, "")
                     ELSE CallToolEnd(h3, e.store, "", "upstream returned status")
                ELSE
                LET a == RefreshTokens(e.store, cr, t2, [out EXCEPT !.refresh = answer,
                                                                    !.auth = answer])
                    h4 == [h3 EXCEPT !.reauth = Append(@, IF a.ok THEN "ok" ELSE "fail"),
                                     !.reposts = @ \o a.posts, !.reAt = t2]
                IN  IF ~a.ok
                    THEN CallToolEnd(h4, a.store, "", "re-authentication failed")
                    ELSE
                    LET h5 == [h4 EXCEPT !.args = AutoFillParams(tool, h4.args, a.tokens)]
                        h6 == Dispatched(h5, a.tokens)
                        resp2 == BackendResp(h5, codes[2])
                        h7 == [h6 EXCEPT !.got = Append(@, resp2)]
                    IN  IF codes[2] = 0
                        THEN CallToolEnd(h6, a.store, "",
                                         "upstream request failed after retry")
                        ELSE IF IsSuccess(codes[2])
                        THEN CallToolEnd(h7, a.store, resp2.body, "")
                        ELSE CallToolEnd(h7, a.store, "", "upstream returned status")

\* CallTool(tool, args) with the token store st at its start, called at
\* time t1 and re-authenticating at t2; out and answer are what the auth
\* service answers, codes what the backend answers to the first and the
\* second dispatch.  It sends no LogEntry and leaves the request counter.
CallTool(tool, args, st, cr, t1, t2, out, codes, answer) ==
    LET e == EnsureAuthenticated(st, cr, t1, out)
        h0 == [NoHist EXCEPT !.ensure = 1, !.posts = e.posts, !.pre = st,
                             !.at = t1, !.ens = e, !.args = args]
    IN  IF ~e.ok
        THEN CallToolEnd(h0, e.store, "", "authentication failed")
        ELSE
        LET h1 == [h0 EXCEPT !.args = AutoFillParams(tool, args, e.tokens)]
            h2 == Dispatched(h1, e.tokens)
            resp1 == BackendResp(h1, codes[1])
        IN  IF codes[1] = 0
            THEN CallToolEnd(h2, e.store, "", "upstream request failed")
            ELSE
            LET h3 == [h2 EXCEPT !.got = Append(@, resp1)]
            IN  IF ~IsAuthError(codes[1])
                THEN IF IsSuccess(codes[1])
                     THEN CallToolEnd(h3, e.store, resp1.body, "")
                     ELSE CallToolEnd(h3, e.store, "", "upstream returned status")
                ELSE
                LET a == Authenticate(e.store, cr, t2, answer)
                    h4 == [h3 EXCEPT !.reauth = Append(@, IF a.ok THEN "ok" ELSE "fail"),
                                     !.reposts = @ \o a.posts, !.reAt = t2]
                IN  IF ~a.ok
                    THEN CallToolEnd(h4, a.store, "", "re-authentication failed")
                    ELSE
                    LET h5 == [h4 EXCEPT !.args = AutoFillParams(tool, h4.args, a.tokens)]
                        h6 == Dispatched(h5, a.tokens)
                        resp2 == BackendResp(h5, codes[2])
                        h7 == [h6 EXCEPT !.got = Append(@, resp2)]
                    IN  IF codes[2] = 0
                        THEN CallToolEnd(h6, a.store, "",
                                         "upstream request failed after retry")
                        ELSE IF IsSuccess(codes[2])
                        THEN CallToolEnd(h7, a.store, resp2.body, "")
                        ELSE CallToolEnd(h7, a.store, "", "upstream returned status")

\* the UI receives one entry from LogChannel()
ConsumeLog ==
    /\ logChan # << >>
    /\ logChan' = Tail(logChan)
    /\ UNCHANGED <<alog, logVars, bridgeVars, fillVars, listenVars, raceVars, authVars, sessionToken, requestCount, calls, pc, req, tok, hist, streamVars, outVars>>

TickStep == 120
MaxTime == 120

\* time passes
Tick ==
    /\ now + TickStep <= MaxTime
    /\ now' = now + TickStep
    /\ UNCHANGED <<alog, logVars, bridgeVars, fillVars, listenVars, raceVars, store, creds, proxyVars, streamVars, outVars>>

StoredA == [NoStore EXCEPT !.has = TRUE, !.exp = TokenLife, !.rexp = 2 * TokenLife,
                           !.access = 1, !.refresh = 1]

\* the same tokens on a host without a keyring, read from the environment
StoredEnv == [NoStore EXCEPT !.has = TRUE, !.exp = TokenLife, !.rexp = 2 * TokenLife,
                             !.keyringOK = FALSE, !.envAccess = 1, !.envRefresh = 1]

NextCall ==
    \/ \E h \in Handlers : handleHealth(h)
    \/ \E h \in Handlers : withAuthForbidden(h)
    \/ \E h \in Handlers : handleProxyStart(h)
    \/ \E h \in Handlers : handleCallBadBody(h)
    \/ \E h \in Handlers : handleCallStart(h)
    \/ \E h \in Handlers : handleEnsure(h)
    \/ \E h \in Handlers : handleForward(h)
    \/ \E h \in Handlers : handleCallDispatch(h)
    \/ \E h \in Handlers : handleCallReauth(h)
    \/ \E h \in Handlers : handleCallRetry(h)
    \/ \E h \in Handlers : handlerReturn(h)
    \/ ConsumeLog
    \/ Tick


-----------------------------------------------------------------------------
(* SpecLog: request handlers running concurrently as producers of the log  *)
(* queue, with a consumer that may or may not read                         *)

Producers == {"p1", "p2"}
MaxRounds == 2
MaxReads == 2

IdleProducer == [pc |-> "idle", rounds |-> 0]

\* the send in sendLog's select, were it to have no default case
sendReady_Blocking(q) == Len(q) < LogChanCap

\* sendLog's select has a default case: the statement never waits
sendReady(q) == TRUE

\* entries left in the queue by earlier requests
Backlog(n) == [i \in 1..n |-> LogEntry("earlier", "success")]

\* handleCall up to its pending entry
produceStart(p) ==
    /\ prod[p].pc = "idle"
    /\ prod[p].rounds < MaxRounds
    /\ sendReady(logChan)
    /\ logChan' = sendLog(logChan, LogEntry(p, "pending"))
    /\ prod' = [prod EXCEPT ![p].pc = "running", ![p].rounds = @ + 1]
    /\ UNCHANGED <<fillVars, listenVars, raceVars, authVars, bridgeVars, alog, reads, streamVars, outVars>>
    /\ UNCHANGED <<sessionToken, requestCount, calls, pc, req, tok, hist>>

\* handleCall from its terminal entry to the HTTP response
produceFinish(p) ==
    /\ prod[p].pc = "running"
    /\ sendReady(logChan)
    /\ \E status \in {"success", "error"} :
         logChan' = sendLog(logChan, LogEntry(p, status))
    /\ prod' = [prod EXCEPT ![p].pc = "replied"]
    /\ UNCHANGED <<fillVars, listenVars, raceVars, authVars, bridgeVars, alog, reads, streamVars, outVars>>
    /\ UNCHANGED <<sessionToken, requestCount, calls, pc, req, tok, hist>>

\* the handler returns
produceReturn(p) ==
    /\ prod[p].pc = "replied"
    /\ prod' = [prod EXCEPT ![p].pc = "idle"]
    /\ UNCHANGED <<fillVars, listenVars, raceVars, authVars, bridgeVars, alog, reads, streamVars, outVars>>
    /\ UNCHANGED proxyVars

\* the UI takes an entry from LogChannel() while handlers run
consumeEntry ==
    /\ reads < MaxReads
    /\ logChan # << >>
    /\ logChan' = Tail(logChan)
    /\ reads' = reads + 1
    /\ UNCHANGED <<fillVars, listenVars, raceVars, authVars, bridgeVars, alog, prod, streamVars, outVars>>
    /\ UNCHANGED <<sessionToken, requestCount, calls, pc, req, tok, hist>>

NextLog ==
    \/ \E p \in Producers : produceStart(p)
    \/ \E p \in Producers : produceFinish(p)
    \/ \E p \in Producers : produceReturn(p)
    \/ consumeEntry

-----------------------------------------------------------------------------
(* SpecListen: one call's handler, the other handlers filling the log      *)
(* queue, and the UI taking every entry, all scheduled fairly              *)

\* the handler whose entries are followed
Watched == "p1"

MaxBursts == 1

\* entries of calls served by the other handlers
OthersEntries(n) == [i \in 1..n |-> LogEntry("other", "success")]

\* listenForLogs: the UI receives the next entry; the run keeps those of the
\* watched handler
listenForLogs ==
    /\ logChan # << >>
    /\ logChan' = Tail(logChan)
    /\ received' = IF Head(logChan).call = Watched
                   THEN Append(received, Head(logChan))
                   ELSE received
    /\ UNCHANGED <<bursts, prod, reads>>
    /\ UNCHANGED <<fillVars, raceVars, authVars, bridgeVars, alog, streamVars, outVars>>
    /\ UNCHANGED <<sessionToken, requestCount, calls, pc, req, tok, hist>>

\* the other handlers serve calls while the UI is busy: each of their
\* entries goes through sendLog, one entry or as many as the queue takes
othersSend ==
    /\ bursts < MaxBursts
    /\ Len(logChan) < LogChanCap
    /\ \E n \in {1, LogChanCap - Len(logChan)} :
         logChan' = logChan \o OthersEntries(n)
    /\ bursts' = bursts + 1
    /\ UNCHANGED <<received, prod, reads>>
    /\ UNCHANGED <<fillVars, raceVars, authVars, bridgeVars, alog, streamVars, outVars>>
    /\ UNCHANGED <<sessionToken, requestCount, calls, pc, req, tok, hist>>

NextListen ==
    \/ produceStart(Watched)
    \/ produceFinish(Watched)
    \/ produceReturn(Watched)
    \/ listenForLogs
    \/ othersSend

-----------------------------------------------------------------------------
(* SpecRace: request handlers inside Authenticate / SetTokens while        *)
(* another is inside GetTokens; package config takes no lock, so the       *)
(* statements of SetTokens and GetTokens interleave                        *)

Writers == {"w1", "w2"}
MaxGets == 2

NoGet == [pc |-> "idle", access |-> 0, refresh |-> 0]

\* the tokens of an earlier login, of another agent
RaceStart == [StoredA EXCEPT !.ident = IdentityB]

\* the tokens in the authenticate response w receives: the backend issues
\* each its own access token, w2's a second later
ResponseTokens(w) ==
    LET n == IF w = "w1" THEN 2 ELSE 3
    IN  AuthTokens(n, n, now + TokenLife + (n - 2), now + 2 * TokenLife + (n - 2),
                   IdentityA)

\* Authenticate: the response is parsed, SetTokens is about to be called
authenticateResponse(w) ==
    /\ wpc[w] = "idle"
    /\ wtok' = [wtok EXCEPT ![w] = ResponseTokens(w)]
    /\ wpc' = [wpc EXCEPT ![w] = "assign"]
    /\ UNCHANGED <<gloc, seen, authVars>>
    /\ UNCHANGED <<fillVars, listenVars, proxyVars, bridgeVars, alog, logVars, streamVars, outVars>>

\* SetTokens: c.Tokens = &struct{...}
setTokensAssign(w) ==
    /\ wpc[w] = "assign"
    /\ store' = [store EXCEPT
                    !.has = TRUE,
                    !.exp = wtok[w].ExpiresAt,
                    !.rexp = wtok[w].RefreshExpiresAt,
                    !.ident = [AgentID |-> wtok[w].AgentID,
                               AgentName |-> wtok[w].AgentName,
                               EVMAddress |-> wtok[w].EVMAddress,
                               SolanaAddress |-> wtok[w].SolanaAddress,
                               SubOrganizationID |-> wtok[w].SubOrganizationID]]
    /\ wpc' = [wpc EXCEPT ![w] = "access"]
    /\ UNCHANGED <<wtok, gloc, seen, creds, now>>
    /\ UNCHANGED <<fillVars, listenVars, proxyVars, bridgeVars, alog, logVars, streamVars, outVars>>

\* SetTokens: secureSet(KeychainAccessToken, tokens.AccessToken)
setTokensAccess(w) ==
    /\ wpc[w] = "access"
    /\ store' = [store EXCEPT !.access = secureSet(store, "access", wtok[w].AccessToken)]
    /\ wpc' = [wpc EXCEPT ![w] = "refresh"]
    /\ UNCHANGED <<wtok, gloc, seen, creds, now>>
    /\ UNCHANGED <<fillVars, listenVars, proxyVars, bridgeVars, alog, logVars, streamVars, outVars>>

\* SetTokens: secureSet(KeychainRefreshToken, tokens.RefreshToken), save()
\* and the return
setTokensRefresh(w) ==
    /\ wpc[w] = "refresh"
    /\ store' = [store EXCEPT !.refresh = IF wtok[w].RefreshToken # 0
                                          THEN secureSet(store, "refresh", wtok[w].RefreshToken)
                                          ELSE @]
    /\ wpc' = [wpc EXCEPT ![w] = "done"]
    /\ UNCHANGED <<wtok, gloc, seen, creds, now>>
    /\ UNCHANGED <<fillVars, listenVars, proxyVars, bridgeVars, alog, logVars, streamVars, outVars>>

\* GetTokens: c.Tokens is not nil, the two secureGet calls
getTokensKeyring ==
    /\ gloc.pc = "idle"
    /\ Len(seen) < MaxGets
    /\ GetTokensOK(store)
    /\ gloc' = [pc |-> "fields", access |-> secureGet(store, "access"),
                refresh |-> secureGet(store, "refresh")]
    /\ UNCHANGED <<wpc, wtok, seen, authVars>>
    /\ UNCHANGED <<fillVars, listenVars, proxyVars, bridgeVars, alog, logVars, streamVars, outVars>>

\* GetTokens: the returned record is built from the fields of c.Tokens
getTokensFields ==
    /\ gloc.pc = "fields"
    /\ seen' = Append(seen, AuthTokens(gloc.access, gloc.refresh, store.exp,
                                       store.rexp, store.ident))
    /\ gloc' = NoGet
    /\ UNCHANGED <<wpc, wtok, authVars>>
    /\ UNCHANGED <<fillVars, listenVars, proxyVars, bridgeVars, alog, logVars, streamVars, outVars>>

NextRace ==
    \/ \E w \in Writers : authenticateResponse(w)
    \/ \E w \in Writers : setTokensAssign(w)
    \/ \E w \in Writers : setTokensAccess(w)
    \/ \E w \in Writers : setTokensRefresh(w)
    \/ getTokensKeyring
    \/ getTokensFields

-----------------------------------------------------------------------------
(* package mcp: Bridge *)

MaxLines == 2
MaxRestarts == 1

SessB == "session-B"

\* the tokens rand.Read yields, construction by construction
SessionTokens == <<SessA, SessB, "session-C", "session-D">>

\* the token of the n-th proxy constructed after the first
NewToken(n) == SessionTokens[n + 1]

\* the session-token entry: the keyring's value when a keyring is usable
\* (session, "" when absent) and BOBA_SESSION_TOKEN (env, "" when unset)
NoRing == [keyringOK |-> TRUE, session |-> "", env |-> ""]

\* the token NewBridge was given and the entry as it is now: the token is
\* current; or it is stale and the entry is current, absent, or comes from
\* the environment of a host without a keyring
BridgeStarts ==
    { <<SessA, [NoRing EXCEPT !.session = SessA]>>,
      <<"session-old", [NoRing EXCEPT !.session = SessA]>>,
      <<"session-old", NoRing>>,
      <<"session-old", [NoRing EXCEPT !.keyringOK = FALSE, !.env = "session-old"]>> }

\* config.GetSessionToken; "" is the error
GetSessionToken(r) == IF r.keyringOK /\ r.session # "" THEN r.session ELSE r.env

\* config.SetSessionToken
SetSessionToken(r, token) == [r EXCEPT !.session = IF r.keyringOK THEN token ELSE @]

\* config.ClearSessionToken
ClearSessionToken(r) == [r EXCEPT !.session = IF r.keyringOK THEN "" ELSE @]

NoResult == "none"
NoError == 0

\* JSONRPCResponse: id, result (NoResult when omitted), error code (NoError
\* when the error member is omitted)
Response(id, result, error) == [id |-> id, result |-> result, error |-> error]

\* lines offered on stdin; id "null" is a request without id
RequestLines ==
    { [kind |-> "request", method |-> "initialize", id |-> "1", paramsOK |-> TRUE],
      [kind |-> "request", method |-> "notifications/initialized", id |-> "null", paramsOK |-> TRUE],
      [kind |-> "request", method |-> "notifications/initialized", id |-> "1", paramsOK |-> TRUE],
      [kind |-> "request", method |-> "resources/list", id |-> "1", paramsOK |-> TRUE],
      [kind |-> "request", method |-> "resources/list", id |-> "null", paramsOK |-> TRUE],
      [kind |-> "request", method |-> "tools/list", id |-> "2", paramsOK |-> TRUE],
      [kind |-> "request", method |-> "tools/call", id |-> "1", paramsOK |-> TRUE],
      [kind |-> "request", method |-> "tools/call", id |-> "2", paramsOK |-> TRUE],
      [kind |-> "request", method |-> "tools/call", id |-> "1", paramsOK |-> FALSE] }

EmptyLine == [kind |-> "empty", method |-> "", id |-> "null", paramsOK |-> TRUE]
\* a line json.Unmarshal rejects
UnparsableLine == [kind |-> "unparsable", method |-> "", id |-> "null", paramsOK |-> TRUE]
NoLine == [kind |-> "none", method |-> "", id |-> "null", paramsOK |-> TRUE]

LinePool == RequestLines \cup {EmptyLine, UnparsableLine}

StdinPool == UNION {[1..n -> LinePool] : n \in 1..MaxLines}

NoBH ==
    [sends |-> << >>,       \* session tokens of the requests sent to the proxy
     statuses |-> << >>,    \* proxy statuses received, 0 for a transport error
     rereads |-> 0,         \* calls of refreshSessionToken
     reread |-> "",         \* what GetSessionToken gave it, "" for its error
     body |-> TRUE,         \* the final response's body could be read
     wrote |-> 0]           \* responses written to stdout

\* what the proxy answers to a request carrying token: status 0 is a transport
\* error, bodyOK that the body can be read (and, for /tools, decoded); a proxy
\* that is running answers 403 unless withAuth passes
ProxyAnswers(token) ==
    IF proxyTok = ""
    THEN {[status |-> 0, bodyOK |-> TRUE]}
    ELSE IF ~IsAuthorized(<<"Bearer ", token>>, proxyTok)
    THEN {[status |-> 0, bodyOK |-> TRUE], [status |-> 403, bodyOK |-> TRUE]}
    ELSE {[status |-> c, bodyOK |-> TRUE] : c \in {0, 200, 401, 403, 500, 502}}
         \cup {[status |-> 200, bodyOK |-> FALSE]}

\* resp.StatusCode == http.StatusForbidden, widened to 401
IsForbidden_Or401(status) == status = 403 \/ status = 401

\* resp.StatusCode == http.StatusForbidden
IsForbidden(status) == status = 403

\* refreshSessionToken: b.sessionToken afterwards
refreshSessionToken(token) ==
    IF GetSessionToken(ring) = "" THEN token ELSE GetSessionToken(ring)

\* handleToolsCall's answer to a doToolsCall error, as a JSON-RPC error
ToolsCallFailure_AsError(id) == Response(id, NoResult, -32603)

\* handleToolsCall's answer to a doToolsCall error
ToolsCallFailure(id) == Response(id, "error-text", NoError)

\* handleToolsList's answer to a doToolsList error, with the error member lost
ToolsListFailure_NoMember(id) == Response(id, NoResult, NoError)

\* handleToolsList's answer to a doToolsList error
ToolsListFailure(id) == Response(id, NoResult, -32603)

\* handleRequest's default case answering "invalid params"
MethodNotFound_InvalidParams(id) == Response(id, NoResult, -32602)

\* handleRequest's default case: code -32601, "Method not found"
MethodNotFound(id) == Response(id, NoResult, -32601)

\* handleToolsCall's answer when json.Unmarshal(req.Params) fails
InvalidParams(id) == Response(id, NoResult, -32602)

\* the response once the proxy's final answer is in
FinalResponse(line, answer) ==
    IF line.method = "tools/call"
    THEN IF answer.status # 200 \/ ~answer.bodyOK
         THEN ToolsCallFailure(line.id)
         ELSE Response(line.id, "tool-text", NoError)
    ELSE IF answer.status # 200 \/ ~answer.bodyOK
         THEN ToolsListFailure(line.id)
         ELSE Response(line.id, "tools", NoError)

Failed(resp) == resp = ToolsCallFailure(resp.id) \/ resp = ToolsListFailure(resp.id)

\* writeResponse
Write(resp) ==
    /\ stdout' = Append(stdout, resp)
    /\ bh' = [NoBH EXCEPT !.wrote = 1]

\* scanner.Scan() hands the next line to the loop body
Scan(line) ==
    /\ bpc = "read"
    /\ stdin # << >>
    /\ line = Head(stdin)
    /\ stdin' = Tail(stdin)
    /\ bcur' = line

\* len(line) == 0
ReadEmpty ==
    /\ Scan(EmptyLine)
    /\ bh' = NoBH
    /\ UNCHANGED <<bTok, ring, proxyTok, restarts, stdout, stderr, bpc>>
    /\ UNCHANGED <<fillVars, listenVars, raceVars, authVars, proxyVars, alog, logVars, streamVars, outVars>>

\* json.Unmarshal fails
ReadUnparsable ==
    /\ Scan(UnparsableLine)
    /\ stderr' = Append(stderr, "failed to parse JSON-RPC request")
    /\ bh' = NoBH
    /\ UNCHANGED <<bTok, ring, proxyTok, restarts, stdout, bpc>>
    /\ UNCHANGED <<fillVars, listenVars, raceVars, authVars, proxyVars, alog, logVars, streamVars, outVars>>

handleInitialize ==
    \E line \in RequestLines :
        /\ line.method = "initialize"
        /\ Scan(line)
        /\ Write(Response(line.id, "initialize", NoError))
        /\ UNCHANGED <<bTok, ring, proxyTok, restarts, stderr, bpc>>
        /\ UNCHANGED <<fillVars, listenVars, raceVars, authVars, proxyVars, alog, logVars, streamVars, outVars>>

\* notifications/initialized: handleRequest returns nil
handleInitialized ==
    \E line \in RequestLines :
        /\ line.method = "notifications/initialized"
        /\ Scan(line)
        /\ bh' = NoBH
        /\ UNCHANGED <<bTok, ring, proxyTok, restarts, stdout, stderr, bpc>>
        /\ UNCHANGED <<fillVars, listenVars, raceVars, authVars, proxyVars, alog, logVars, streamVars, outVars>>

\* handleRequest's default case
handleUnknownMethod ==
    \E line \in RequestLines :
        /\ line.method \notin {"initialize", "notifications/initialized",
                               "tools/list", "tools/call"}
        /\ Scan(line)
        /\ Write(MethodNotFound(line.id))
        /\ UNCHANGED <<bTok, ring, proxyTok, restarts, stderr, bpc>>
        /\ UNCHANGED <<fillVars, listenVars, raceVars, authVars, proxyVars, alog, logVars, streamVars, outVars>>

\* handleToolsCall: the params do not decode
handleToolsCallInvalidParams ==
    \E line \in RequestLines :
        /\ line.method = "tools/call"
        /\ ~line.paramsOK
        /\ Scan(line)
        /\ Write(InvalidParams(line.id))
        /\ UNCHANGED <<bTok, ring, proxyTok, restarts, stderr, bpc>>
        /\ UNCHANGED <<fillVars, listenVars, raceVars, authVars, proxyVars, alog, logVars, streamVars, outVars>>

\* handleToolsList / handleToolsCall reach doToolsList / doToolsCall
handleToolsStart ==
    \E line \in RequestLines :
        /\ line.method \in {"tools/list", "tools/call"}
        /\ line.paramsOK
        /\ Scan(line)
        /\ bh' = NoBH
        /\ bpc' = "first"
        /\ UNCHANGED <<bTok, ring, proxyTok, restarts, stdout, stderr>>
        /\ UNCHANGED <<fillVars, listenVars, raceVars, authVars, proxyVars, alog, logVars, streamVars, outVars>>

\* the proxy's final answer is in: the response is written, errors are logged
Conclude(hh, answer) ==
    LET resp == FinalResponse(bcur, answer)
    IN  /\ stdout' = Append(stdout, resp)
        /\ stderr' = IF Failed(resp) THEN Append(stderr, bcur.method \o " failed")
                                     ELSE stderr
        /\ bh' = [hh EXCEPT !.wrote = 1, !.body = answer.bodyOK]
        /\ bpc' = "read"

\* doToolsList / doToolsCall: the first b.client.Do and what follows it
bridgeFirstAttempt ==
    /\ bpc = "first"
    /\ \E answer \in ProxyAnswers(bTok) :
         LET hh == [bh EXCEPT !.sends = Append(@, bTok),
                              !.statuses = Append(@, answer.status)]
         IN  IF IsForbidden(answer.status)
             THEN /\ bTok' = refreshSessionToken(bTok)
                  /\ stderr' = IF GetSessionToken(ring) = ""
                               THEN Append(stderr, "failed to refresh session token")
                               ELSE stderr
                  /\ bh' = [hh EXCEPT !.rereads = @ + 1,
                                       !.reread = GetSessionToken(ring)]
                  /\ bpc' = "second"
                  /\ UNCHANGED stdout
             ELSE /\ Conclude(hh, answer)
                  /\ UNCHANGED bTok
    /\ UNCHANGED <<ring, proxyTok, restarts, stdin, bcur>>
    /\ UNCHANGED <<fillVars, listenVars, raceVars, authVars, proxyVars, alog, logVars, streamVars, outVars>>

\* doToolsList / doToolsCall: the retry's b.client.Do and what follows it
bridgeSecondAttempt ==
    /\ bpc = "second"
    /\ \E answer \in ProxyAnswers(bTok) :
         Conclude([bh EXCEPT !.sends = Append(@, bTok),
                             !.statuses = Append(@, answer.status)], answer)
    /\ UNCHANGED <<bTok, ring, proxyTok, restarts, stdin, bcur>>
    /\ UNCHANGED <<fillVars, listenVars, raceVars, authVars, proxyVars, alog, logVars, streamVars, outVars>>

\* scanner.Scan() returns false at end of input: Run returns
bridgeEOF ==
    /\ bpc = "read"
    /\ stdin = << >>
    /\ bpc' = "exit"
    /\ UNCHANGED <<bTok, ring, proxyTok, restarts, stdin, stdout, stderr, bcur, bh>>
    /\ UNCHANGED <<fillVars, listenVars, raceVars, authVars, proxyVars, alog, logVars, streamVars, outVars>>

\* the proxy is started anew: NewProxyServer stores a fresh session token
ProxyRestart ==
    /\ restarts < MaxRestarts
    /\ bpc # "exit"
    /\ restarts' = restarts + 1
    /\ proxyTok' = NewToken(restarts + 1)
    /\ ring' = SetSessionToken(ring, NewToken(restarts + 1))
    /\ UNCHANGED <<bTok, stdin, stdout, stderr, bpc, bcur, bh>>
    /\ UNCHANGED <<fillVars, listenVars, raceVars, authVars, proxyVars, alog, logVars, streamVars, outVars>>

\* a proxy is constructed while the port is held, by the first proxy or by
\* another program: NewProxyServer stores its token, Start fails and
\* runStart returns without Stop; whoever serves goes on serving
ProxyStartFails ==
    /\ restarts < MaxRestarts
    /\ bpc # "exit"
    /\ restarts' = restarts + 1
    /\ ring' = SetSessionToken(ring, NewToken(restarts + 1))
    /\ UNCHANGED <<bTok, proxyTok, stdin, stdout, stderr, bpc, bcur, bh>>
    /\ UNCHANGED <<fillVars, listenVars, raceVars, authVars, proxyVars, alog, logVars, streamVars, outVars>>

\* Stop: the proxy shuts down and clears the stored session token
ProxyStop ==
    /\ proxyTok # ""
    /\ bpc # "exit"
    /\ proxyTok' = ""
    /\ ring' = ClearSessionToken(ring)
    /\ UNCHANGED <<bTok, restarts, stdin, stdout, stderr, bpc, bcur, bh>>
    /\ UNCHANGED <<fillVars, listenVars, raceVars, authVars, proxyVars, alog, logVars, streamVars, outVars>>

NextBridge ==
    \/ ReadEmpty
    \/ ReadUnparsable
    \/ handleInitialize
    \/ handleInitialized
    \/ handleUnknownMethod
    \/ handleToolsCallInvalidParams
    \/ handleToolsStart
    \/ bridgeFirstAttempt
    \/ bridgeSecondAttempt
    \/ bridgeEOF
    \/ ProxyRestart
    \/ ProxyStartFails
    \/ ProxyStop


-----------------------------------------------------------------------------
(* Claims about the bridge (SpecBridge) *)

\* the line being served went to the proxy
ViaProxy == bcur.method \in {"tools/list", "tools/call"} /\ bcur.paramsOK

\* the line being served has been dealt with
Served == bpc \in {"read", "exit"} /\ bcur.kind # "none"

\* C8: for tools/list and tools/call, a first proxy response of 403 makes the
\* bridge re-read the session token exactly once and send the request exactly
\* once more, with the token it then holds; a second response other than 200
\* is reported as a failure with no further re-read or re-send; a first
\* response other than 403 causes no re-read and no re-send.
C8_RetryOnceOn403 ==
    ViaProxy =>
        /\ bh.rereads <= 1
        /\ Len(bh.sends) <= 2
        /\ Len(bh.statuses) = Len(bh.sends)
        /\ bpc = "second" => bh.statuses = <<403>> /\ bh.rereads = 1
        /\ Len(bh.sends) = 2 => bh.sends[2] = bTok
        /\ Served =>
             /\ Len(bh.statuses) >= 1
             /\ bh.statuses[1] = 403 => bh.rereads = 1 /\ Len(bh.sends) = 2
             /\ bh.statuses[1] # 403 => bh.rereads = 0 /\ Len(bh.sends) = 1
             /\ (Len(bh.statuses) = 2 /\ bh.statuses[2] # 200) =>
                    /\ bh.wrote = 1
                    /\ Failed(stdout[Len(stdout)])
                    /\ stdout[Len(stdout)].id = bcur.id

\* a tools/call was answered 403 twice and has been reported as failed
C8_Witness ==
    /\ Served
    /\ bcur.method = "tools/call"
    /\ bcur.paramsOK
    /\ bh.statuses = <<403, 403>>
    /\ bh.rereads = 1
    /\ Len(bh.sends) = 2
    /\ Failed(stdout[Len(stdout)])

\* the tools/call being served failed while it was executed
CallFailed ==
    /\ Served
    /\ bcur.method = "tools/call"
    /\ bcur.paramsOK
    /\ bh.statuses # << >>
    /\ (bh.statuses[Len(bh.statuses)] # 200 \/ ~bh.body)

\* C9: whatever goes wrong while a tools/call is executed (transport error,
\* non-200 status, 403 after the retry, unreadable body), the response carries
\* a result holding the error text and no error member.
C9_FailureIsResult ==
    CallFailed =>
        /\ bh.wrote = 1
        /\ stdout[Len(stdout)].id = bcur.id
        /\ stdout[Len(stdout)].result = "error-text"
        /\ stdout[Len(stdout)].error = NoError

\* a tools/call ended in a transport error and was answered
C9_Witness ==
    /\ CallFailed
    /\ bh.statuses[Len(bh.statuses)] = 0
    /\ bh.wrote = 1
    /\ stdout[Len(stdout)].result = "error-text"

\* C10: a non-empty line that cannot be parsed is answered on stdout with a
\* JSON-RPC error object whose code is -32700.
C10_ParseErrorAnswered ==
    (Served /\ bcur.kind = "unparsable") =>
        /\ bh.wrote = 1
        /\ stdout # << >>
        /\ stdout[Len(stdout)].error = -32700


\* C11: every parsed request with an id gets exactly one response, carrying
\* that id, before the next line is read; every request without an id gets no
\* response, whatever its method.
C11_OneResponsePerRequest ==
    (Served /\ bcur.kind = "request") =>
        IF bcur.id # "null"
        THEN /\ bh.wrote = 1
             /\ stdout # << >>
             /\ stdout[Len(stdout)].id = bcur.id
        ELSE bh.wrote = 0

\* a JSON-RPC response object: exactly one of result and error
WellFormed(resp) ==
    /\ DOMAIN resp = {"id", "result", "error"}
    /\ (resp.result # NoResult) # (resp.error # NoError)

ProxyCallFailed ==
    /\ bh.statuses # << >>
    /\ (bh.statuses[Len(bh.statuses)] # 200 \/ ~bh.body)

\* C32: an unknown method is answered with error code -32601, a tools/call
\* whose params do not decode with -32602, a tools/list whose proxy call
\* failed with -32603, each without a result member; initialize and unknown
\* methods are answered with no request to the proxy.
C32_ErrorCodes ==
    (Served /\ bcur.kind = "request") =>
        /\ bcur.method \notin {"initialize", "notifications/initialized",
                                "tools/list", "tools/call"} =>
              /\ bh.wrote = 1 /\ bh.sends = << >> /\ bh.statuses = << >>
              /\ stdout[Len(stdout)] = Response(bcur.id, NoResult, -32601)
        /\ bcur.method = "initialize" =>
              /\ bh.wrote = 1 /\ bh.sends = << >> /\ bh.statuses = << >>
              /\ stdout[Len(stdout)].id = bcur.id
              /\ stdout[Len(stdout)].error = NoError
              /\ stdout[Len(stdout)].result # NoResult
        /\ (bcur.method = "tools/call" /\ ~bcur.paramsOK) =>
              /\ bh.wrote = 1 /\ bh.sends = << >>
              /\ stdout[Len(stdout)] = Response(bcur.id, NoResult, -32602)
        /\ (bcur.method = "tools/list" /\ ProxyCallFailed) =>
              /\ bh.wrote = 1
              /\ stdout[Len(stdout)] = Response(bcur.id, NoResult, -32603)

\* an unknown method without id was answered -32601 after a tools/list
\* whose body did not decode was answered -32603
C32_Witness ==
    /\ Served
    /\ bcur.method = "resources/list" /\ bcur.id = "null"
    /\ Len(stdout) = 2
    /\ stdout[1] = Response("2", NoResult, -32603)
    /\ stdout[2] = Response("null", NoResult, -32601)
    /\ bh.sends = << >>

-----------------------------------------------------------------------------
(* Claims about the proxy's handlers (SpecCall) *)

Last(q) == q[Len(q)]
Codes(q) == [i \in 1..Len(q) |-> q[i].code]

\* C1: in one POST /call, a first backend answer of 401 or 403 makes the
\* handler call Authenticate() once (posting to the authenticate endpoint
\* only, never to refresh) and, when that succeeds, dispatch once more; no
\* other answer does; a call makes at most two dispatches and one such
\* Authenticate(), also when the second answer is 401 or 403.
C1_RetryExactlyOnce ==
    \A h \in Handlers :
        LET hh == hist[h] IN
        req[h].route = "/call" =>
            /\ Len(hh.sent) <= 2
            /\ Len(hh.reauth) <= 1
            /\ hh.reposts \in {<< >>, <<"authenticate">>}
            /\ Len(hh.reauth) = 1 => (Len(hh.got) >= 1 /\ hh.got[1].code \in {401, 403})
            /\ Len(hh.sent) = 2 => hh.reauth = <<"ok">>
            /\ pc[h] = "done" =>
                 IF Len(hh.got) >= 1 /\ hh.got[1].code \in {401, 403}
                 THEN /\ Len(hh.reauth) = 1
                      /\ hh.reauth = <<"ok">> => Len(hh.sent) = 2
                 ELSE hh.reauth = << >> /\ Len(hh.sent) <= 1

C1_Witness ==
    /\ pc["h1"] = "done"
    /\ Codes(hist["h1"].got) = <<403, 401>>
    /\ hist["h1"].reauth = <<"ok">>
    /\ Len(hist["h1"].sent) = 2
    /\ hist["h1"].resp.code = 401

\* the handler did nothing but answer
Untouched(hh) ==
    /\ hh.ensure = 0 /\ hh.posts = << >> /\ hh.reauth = << >>
    /\ hh.sent = << >> /\ hh.offered = << >> /\ hh.incs = 0

\* C2: /tools, /call and /stream run their handler only for the header
\* "Bearer " + session token; any other request is answered 403 Forbidden
\* with no EnsureAuthenticated, backend request, log entry or counter change;
\* /health is answered 200 whatever the header and the token store.
C2_SessionTokenGate ==
    \A h \in Handlers :
        /\ (req[h].route \in Protected /\ pc[h] # "idle") =>
              IF req[h].header = <<"Bearer ", sessionToken>>
              THEN pc[h] = "done" =>
                     \/ hist[h].ensure = 1
                     \/ (req[h].route = "/call" /\ ~req[h].bodyOK
                            /\ hist[h].resp.code = 400)
              ELSE /\ pc[h] = "done"
                   /\ hist[h].resp = Resp(403, "Forbidden")
                   /\ Untouched(hist[h])
        /\ (req[h].route = "/health" /\ pc[h] = "done") =>
              (hist[h].resp.code = 200 /\ Untouched(hist[h]))

C2_Witness ==
    /\ pc["h1"] = "done"
    /\ req["h1"].route = "/call"
    /\ req["h1"].header = <<SessA>>
    /\ hist["h1"].resp = Resp(403, "Forbidden")
    /\ store = NoStore

\* the call ended in terminal success: the final backend status is 2xx
EndedInSuccess(h) ==
    /\ req[h].route = "/call"
    /\ hist[h].got # << >>
    /\ Len(hist[h].got) = Len(hist[h].sent)
    /\ Last(hist[h].got).code \in 200..299

\* C3: the request counter increases by one exactly when a POST /call ends
\* in terminal success; every other request leaves it unchanged.
C3_CountOnlySuccess ==
    \A h \in Handlers :
        pc[h] = "done" => hist[h].incs = (IF EndedInSuccess(h) THEN 1 ELSE 0)

\* C4: a POST /call that passed the gate and body decoding offers the pending
\* entry before EnsureAuthenticated, nothing more until it ends, and then one
\* terminal entry, which is success exactly when the final backend status is
\* 2xx.
C4_PendingThenTerminal ==
    \A h \in Handlers :
        (req[h].route = "/call" /\ pc[h] # "idle"
            /\ req[h].header = <<"Bearer ", sessionToken>> /\ req[h].bodyOK) =>
            IF pc[h] # "done"
            THEN hist[h].offered = <<"pending">>
            ELSE /\ Len(hist[h].offered) = 2
                 /\ hist[h].offered[1] = "pending"
                 /\ hist[h].offered[2] =
                        (IF EndedInSuccess(h) THEN "success" ELSE "error")

C4_Witness ==
    /\ pc["h1"] = "done"
    /\ Codes(hist["h1"].got) = <<401, 200>>
    /\ hist["h1"].offered = <<"pending", "success">>


\* handler h has answered the request req[h]
Done(h) == pc[h] = "done"

\* the cache holds nothing EnsureAuthenticated can use at time t: no tokens,
\* or expired ones without a refresh token
NoUsableTokens(st, t) ==
    ~GetTokensOK(st) \/ (IsTokenExpired(st, t) /\ ~RefreshHeld(st))

C18_LastReceivedForwarded ==
    \A h \in Handlers :
        (Done(h) /\ req[h].route = "/call" /\ hist[h].got # << >>) =>
            hist[h].resp = Resp(Last(hist[h].got).code, Last(hist[h].got).body)

\* C18: a /call whose last backend dispatch was answered responds with that
\* answer's status and body: the retried response when a retry was
\* dispatched, otherwise the first.
C18_LastDispatchForwarded ==
    \A h \in Handlers :
        LET hh == hist[h] IN
        (/\ Done(h)
         /\ req[h].route = "/call"
         /\ hh.got # << >>
         /\ Len(hh.got) = Len(hh.sent)) =>
            /\ hh.resp = Resp(hh.got[Len(hh.sent)].code, hh.got[Len(hh.sent)].body)
            /\ hh.resp.body = (IF Len(hh.sent) = 2 THEN "body-2" ELSE "body-1")

\* a /call was answered 401, re-authenticated, and forwarded the retry's 500
C18_Witness ==
    \E h \in Handlers :
        /\ Done(h)
        /\ req[h].route = "/call"
        /\ Codes(hist[h].got) = <<401, 500>>
        /\ hist[h].resp = Resp(500, "body-2")

\* C19: a backend dispatch of /call that fails at transport level, first or
\* retried, is answered 502 after an error LogEntry; no re-authentication and
\* no dispatch follows it.
C19_TransportErrorNotRetried ==
    \A h \in Handlers :
        LET hh == hist[h] IN
        req[h].route = "/call" =>
            /\ Len(hh.sent) <= Len(hh.got) + 1
            /\ Len(hh.sent) > Len(hh.got) =>
                  /\ Done(h)
                  /\ hh.resp.code = 502
                  /\ hh.offered = <<"pending", "error">>
                  /\ Len(hh.reauth) = Len(hh.sent) - 1
                  /\ Len(hh.reposts) = Len(hh.sent) - 1

\* the retry of a /call failed at transport level and was answered 502
C19_Witness ==
    \E h \in Handlers :
        /\ Done(h)
        /\ req[h].route = "/call"
        /\ Len(hist[h].sent) = 2
        /\ Len(hist[h].got) = 1
        /\ hist[h].reauth = <<"ok">>
        /\ hist[h].resp.code = 502

\* the steps of a call: EnsureAuthenticated and what it posted, the
\* arguments as filled, the dispatches with their headers, the responses
\* received and the re-authentication; not the log entries, the counter and
\* the HTTP response
Steps(hh) == [hh EXCEPT !.offered = << >>, !.incs = 0, !.resp = NoResp]

\* what the backend answered to the first and the second dispatch of a call;
\* 0 is a transport error, and the answer to a dispatch never made
CodesSeen(hh) == [i \in 1..2 |-> IF i <= Len(hh.got) THEN hh.got[i].code ELSE 0]

\* handler h ran handleCall to its end: the gate and the body passed
RanHandleCall(h) == Done(h) /\ req[h].route = "/call" /\ hist[h].ensure = 1

\* the auth service answering out and answer is what handler h met
SameAuthAnswers(h, out, answer) ==
    /\ EnsureAuthenticated(hist[h].pre, creds, hist[h].at, out) = hist[h].ens
    /\ hist[h].reauth # << >> =>
          (Authenticate(hist[h].ens.store, creds, hist[h].reAt, answer).ok
              <=> hist[h].reauth = <<"ok">>)

\* CallTool with the inputs of the POST /call handler h served
CallToolLike(h, out, answer) ==
    CallTool(req[h].tool, req[h].args, hist[h].pre, creds, hist[h].at,
             hist[h].reAt, out, CodesSeen(hist[h]), answer)

\* C31 as stated: with the tool, arguments, token store and backend
\* behaviour of a POST /call, CallTool does what handleCall did and differs
\* in nothing but the session token and the HTTP layer: the same steps, the
\* same log entries offered, the same count of the request.
C31_SameEffects ==
    \A h \in Handlers :
        RanHandleCall(h) =>
            \A out \in AuthOutcomes, answer \in {"ok", "fail"} :
                SameAuthAnswers(h, out, answer) =>
                    LET ct == CallToolLike(h, out, answer)
                    IN  /\ Steps(ct.did) = Steps(hist[h])
                        /\ ct.store = store
                        /\ ct.did.offered = hist[h].offered
                        /\ ct.did.incs = hist[h].incs

\* C31: with the tool, arguments, token store and backend behaviour of a
\* POST /call, CallTool makes the same EnsureAuthenticated, auto-fill,
\* dispatch, Authenticate and retry steps with the same dispatched arguments
\* and headers and leaves the same token store, also when re-authentication
\* fails; it offers no LogEntry and does not count the request.
C31_SameSteps ==
    \A h \in Handlers :
        RanHandleCall(h) =>
            \A out \in AuthOutcomes, answer \in {"ok", "fail"} :
                SameAuthAnswers(h, out, answer) =>
                    LET ct == CallToolLike(h, out, answer)
                    IN  /\ Steps(ct.did) = Steps(hist[h])
                        /\ ct.store = store
                        /\ ct.did.offered = << >>
                        /\ ct.did.incs = 0

\* a /call whose re-authentication failed after a 403, and CallTool ending
\* in "re-authentication failed" on the same inputs
C31_Witness ==
    \E h \in Handlers :
        /\ RanHandleCall(h)
        /\ Codes(hist[h].got) = <<403>>
        /\ hist[h].reauth = <<"fail">>
        /\ hist[h].reposts = <<"authenticate">>
        /\ \E out \in AuthOutcomes :
              /\ SameAuthAnswers(h, out, "fail")
              /\ CallToolLike(h, out, "fail").err = "re-authentication failed"
              /\ Len(CallToolLike(h, out, "fail").did.sent) = 1


\* C36: when POST /call retries after re-authentication, the arguments of
\* the second dispatch are the caller's original arguments auto-filled with
\* the newly obtained tokens, the tokens whose access token and identity the
\* second dispatch carries as bearer token and X-Agent-* headers.
C36_RetryRefillsOriginalArgs ==
    \A h \in Handlers :
        (req[h].route = "/call" /\ Len(hist[h].sent) = 2) =>
            LET second == hist[h].sent[2]
            IN  /\ second.bearer = tok[h].AccessToken
                /\ second.evm = tok[h].EVMAddress
                /\ second.solana = tok[h].SolanaAddress
                /\ second.subOrg = tok[h].SubOrganizationID
                /\ second.args = AutoFillParams(req[h].tool, req[h].args, tok[h])


\* the token of the proxy constructed last
Newest == NewToken(restarts)

\* C20: once a new proxy has been constructed, the token a running proxy
\* accepts is the new one and the Credential Store yields the new one.
C20_OneValidToken ==
    (restarts >= 1 /\ proxyTok # "") =>
        /\ proxyTok = Newest
        /\ GetSessionToken(ring) = Newest

\* C21: whenever no proxy is serving, the Credential Store yields no session
\* token: Stop has cleared it as its last step, however Shutdown ended.
C21_NoTokenWhenNotServing ==
    proxyTok = "" => GetSessionToken(ring) = ""

\* C35: while a proxy is listening, the session token read back from the
\* Credential Store is the token that proxy accepts: no step taken while the
\* two agree (constructing a proxy, a Start that fails, Stop, with or
\* without a keyring) leaves a listening proxy whose token the store does
\* not yield.
C35_StoreYieldsAcceptedToken ==
    [][(proxyTok # "" /\ GetSessionToken(ring) = proxyTok /\ proxyTok' # "")
          => GetSessionToken(ring') = proxyTok']_vars


-----------------------------------------------------------------------------
(* Claims about the log queue (SpecLog) *)

\* C17: sendLog never blocks the handler: on a queue holding 100 entries the
\* new entry is dropped and the queue is unchanged, otherwise the entry is
\* appended at the end; so every running handler reaches its response, with
\* any number of producers and even if the consumer never reads.
C17_SendLogNeverBlocks ==
    /\ [][\A p \in Producers :
            (prod'[p].pc # prod[p].pc /\ prod[p].pc \in {"idle", "running"}) =>
                IF Len(logChan) = LogChanCap
                THEN logChan' = logChan
                ELSE /\ Len(logChan') = Len(logChan) + 1
                     /\ SubSeq(logChan', 1, Len(logChan)) = logChan
                     /\ logChan'[Len(logChan')].call = p
                     /\ logChan'[Len(logChan')].status \in
                           (IF prod[p].pc = "idle" THEN {"pending"}
                                                   ELSE {"success", "error"})]_vars
    /\ \A p \in Producers : (prod[p].pc = "running") ~> (prod[p].pc = "replied")

\* both handlers have answered while the queue was full and stayed as it was
C17_Witness ==
    /\ \A p \in Producers : prod[p].pc = "replied"
    /\ logChan = Backlog(LogChanCap)

-----------------------------------------------------------------------------
(* Outbound requests: the configured URLs and the HTTP clients *)

Str_https == <<"h", "t", "t", "p", "s", ":", "/", "/">>
Str_httpLocalhost == <<"h", "t", "t", "p", ":", "/", "/", "l", "o", "c", "a", "l", "h", "o", "s", "t">>
Str_http127 == <<"h", "t", "t", "p", ":", "/", "/", "1", "2", "7", ".", "0", ".", "0", ".", "1">>

DefaultMCPURL == Str_https \o <<"m", "c", "p", "-", "s", "k", "u", "n", "k", ".", "u", "p", ".", "r", "a", "i", "l", "w", "a", "y", ".", "a", "p", "p">>
DefaultAuthURL == Str_https \o <<"k", "r", "a", "k", "e", "n", "d", "-", "s", "k", "u", "n", "k", ".", "u", "p", ".", "r", "a", "i", "l", "w", "a", "y", ".", "a", "p", "p", "/", "v", "2">>

\* the locals of an operation that is not running
NoLocals == [op |-> "none"]

Str_localhost == <<"l", "o", "c", "a", "l", "h", "o", "s", "t">>
Str_127 == <<"1", "2", "7", ".", "0", ".", "0", ".", "1">>
Str_plainRemote == <<"h", "t", "t", "p", ":", "/", "/", "e", "v", "i", "l", ".", "i", "o", "/", "v", "2">>

\* strings.Index for one character: Len(s) + 1 when c does not occur
IndexOf(s, c) ==
    IF \E i \in 1..Len(s) : s[i] = c
    THEN CHOOSE i \in 1..Len(s) : s[i] = c /\ \A j \in 1..(i - 1) : s[j] # c
    ELSE Len(s) + 1

\* the last occurrence, 0 when c does not occur
LastIndexOf(s, c) ==
    IF \E i \in 1..Len(s) : s[i] = c
    THEN CHOOSE i \in 1..Len(s) : s[i] = c /\ \A j \in (i + 1)..Len(s) : s[j] # c
    ELSE 0

\* url.Parse(urlStr): what follows "scheme://" up to the path
Authority(urlStr) ==
    LET rest == SubSeq(urlStr, IndexOf(urlStr, ":") + 3, Len(urlStr))
    IN  SubSeq(rest, 1, IndexOf(rest, "/") - 1)

\* parsed.Hostname(): the authority without user information and port
Hostname(urlStr) ==
    LET a == Authority(urlStr)
        h == SubSeq(a, LastIndexOf(a, "@") + 1, Len(a))
    IN  SubSeq(h, 1, IndexOf(h, ":") - 1)

\* config.IsHTTPSOrLocal
IsHTTPSOrLocal(urlStr) ==
    \/ HasPrefix(urlStr, Str_https)
    \/ HasPrefix(urlStr, Str_httpLocalhost)
    \/ HasPrefix(urlStr, Str_http127)

\* the URLs a configuration may hold: the default, a loopback URL with a
\* port, a loopback address, a plain-http remote host, and remote hosts
\* whose URL begins like a loopback one
URLPool ==
    { DefaultAuthURL,
      Str_httpLocalhost \o <<":", "8", "0", "8", "0", "/", "v", "2">>,
      Str_http127 \o <<"/", "v", "2">>,
      Str_plainRemote,
      Str_httpLocalhost \o <<".", "e", "v", "i", "l", ".", "i", "o", "/", "v", "2">>,
      Str_http127 \o <<".", "e", "v", "i", "l", ".", "i", "o", "/", "v", "2">>,
      Str_httpLocalhost \o <<"@", "e", "v", "i", "l", ".", "i", "o", "/", "v", "2">> }

\* noRedirectClient with Go's default policy, which follows redirects
noRedirectClient_Following == [CheckRedirect |-> "follow"]

\* noRedirectClient (packages auth and proxy): CheckRedirect returns an error
noRedirectClient == [CheckRedirect |-> "refuse"]

\* the client handleStream builds: no timeout, CheckRedirect returns an error
streamClient == [CheckRedirect |-> "refuse"]

\* a request: the configured URL it is built from, the endpoint, what it
\* carries ("credentials" or the "refresh" token in the body, a "bearer"
\* token in the header),
\* and the host it goes to (the configured "peer", or a "redirect" target)
Request(urlStr, endpoint, carries) ==
    [url |-> urlStr, endpoint |-> endpoint, carries |-> carries, to |-> "peer"]

\* a response body: whether it is JSON, and the access_token inside the
\* "data" wrapper and at top level (0: absent or "")
Body(json, data, direct) == [json |-> json, data |-> data, direct |-> direct]

NoBody == Body(FALSE, 0, 0)

\* what a peer does with a request
Answer(kind, code, body) == [kind |-> kind, code |-> code, body |-> body]

TransportError == Answer("error", 0, NoBody)

\* the answers to authenticate and refresh, the token issued being token
AuthAnswers(token) ==
    { TransportError,
      Answer("redirect", 307, Body(TRUE, token, 0)),
      Answer("status", 401, Body(TRUE, 0, 0)),
      Answer("status", 500, Body(TRUE, token, 0)),
      Answer("status", 200, NoBody),
      Answer("status", 200, Body(TRUE, 0, 0)),
      Answer("status", 200, Body(TRUE, token, 0)),
      Answer("status", 200, Body(TRUE, 0, token)) }

\* the answers to the other requests
PlainAnswers ==
    { TransportError,
      Answer("redirect", 307, NoBody),
      Answer("status", 200, NoBody),
      Answer("status", 500, NoBody) }

\* client.Do / client.Post: the requests that went out and what the caller
\* gets; a refused redirect is an error, a followed one repeats the request
\* to the redirect target and returns that host's response
Do(client, request, answer) ==
    IF answer.kind = "error"
    THEN [err |-> TRUE, sent |-> <<request>>, code |-> 0, body |-> NoBody]
    ELSE IF answer.kind = "redirect"
    THEN IF client.CheckRedirect = "refuse"
         THEN [err |-> TRUE, sent |-> <<request>>, code |-> 0, body |-> NoBody]
         ELSE [err |-> FALSE,
               sent |-> <<request, [request EXCEPT !.to = "redirect"]>>,
               code |-> 200, body |-> answer.body]
    ELSE [err |-> FALSE, sent |-> <<request>>, code |-> answer.code,
          body |-> answer.body]

\* the access token Authenticate and RefreshTokens take from a body when
\* only the wrapped shape is parsed
AccessTokenOf_WrappedOnly(body) == body.data

\* the access token Authenticate and RefreshTokens take from a JSON body:
\* the wrapped one, else the unwrapped one
AccessTokenOf(body) == IF body.data # 0 THEN body.data ELSE body.direct

\* how SetTokens ends: "none" is success, "keyring" a failed secureSet of
\* the access token (secureSet returns nil without a keyring), "save" a
\* failed save()
SetTokensErrors == {"none", "keyring", "save"}

\* the store after a SetTokens that ended with setErr: c.Tokens is assigned
\* before secureSet is tried
SetTokensEnding(st, tokens, setErr) ==
    IF setErr = "keyring"
    THEN [SetTokens(st, tokens) EXCEPT !.access = st.access, !.refresh = st.refresh]
    ELSE SetTokens(st, tokens)

-----------------------------------------------------------------------------
(* What is logged: logger messages, the LogEntry values handed to sendLog  *)
(* and the bridge's stderr lines.  A message is kept with the names of the *)
(* values its text is built from.                                          *)

Secrets == {"accessToken", "refreshToken", "agentSecret", "sessionToken"}

Logged(sink, msg, shows) == [sink |-> sink, msg |-> msg, shows |-> shows]

\* the error client.Do / client.Post returns, as %v prints it: the method,
\* the URL and the cause, nothing of the request's header or body
DoErrorText(request) == {"method", "url", "cause"}

\* the error Authenticate / RefreshTokens return after their request, as %v
\* prints it
AuthErrorText(request, r, access) ==
    IF r.err THEN DoErrorText(request)      \* "... request failed: %w"
    ELSE IF r.code # 200 THEN {"status"}    \* "... failed with status %d"
    ELSE IF ~r.body.json THEN {"parseError"} \* "failed to parse ...: %w"
    ELSE {}                                 \* "... received empty access token"

\* the success message of Authenticate showing the token it received
AuthenticatedLog_WithToken ==
    Logged("logger", "authenticated successfully",
           {"agentName", "agentId", "accessToken"})

\* logger.Debug("authenticated successfully", "agent", ..., "agentId", ...)
AuthenticatedLog ==
    Logged("logger", "authenticated successfully", {"agentName", "agentId"})

\* the logger calls of Authenticate once the response has been parsed
AuthenticateLogs(r, access) ==
    IF r.err \/ r.code # 200 \/ ~r.body.json
    THEN << >>
    ELSE (IF r.body.data = 0
          THEN <<Logged("logger", "auth response had empty access_token with data wrapper, trying direct parse", {})>>
          ELSE << >>)
         \o (IF access = 0
             THEN <<Logged("logger", "auth response had empty access_token after all parse attempts", {"status"})>>
             ELSE <<AuthenticatedLog>>)

\* the logger calls of RefreshTokens once the response has been parsed
RefreshLogs(r, access) ==
    IF r.err \/ r.code # 200 \/ ~r.body.json \/ access # 0
    THEN << >>
    ELSE <<Logged("logger", "refresh response had empty access_token after all parse attempts", {"status"})>>

\* what the callers log of an error returned to them: EnsureAuthenticated
\* logs the error of RefreshTokens, handleCall puts the error of
\* EnsureAuthenticated, which wraps Authenticate's, in its error LogEntry
CallerLogs(entry, text) ==
    IF entry = "RefreshTokens"
    THEN <<Logged("logger", "token refresh failed, attempting full authentication", text)>>
    ELSE <<Logged("LogEntry", "authentication failed", {"tool", "duration"} \cup text)>>

\* the logger calls of RegisterWithLimitOrders and InitializeWalletMonitoring
SideLogs(name, request, r) ==
    IF r.err
    THEN <<Logged("logger", name \o " request failed", DoErrorText(request))>>
    ELSE IF r.code # 200
    THEN <<Logged("logger", name \o " returned non-OK status", {"status"})>>
    ELSE <<Logged("logger", name \o " succeeded", {})>>

\* what the proxy's handlers log around their backend request: handleCall
\* its pending and terminal LogEntry, handleStream the error that ends the
\* copy loop (streamEnd), handleTools nothing
BackendLogs(endpoint, request, r, streamEnd) ==
    IF endpoint = "/call"
    THEN <<Logged("LogEntry", "pending", {"tool", "description"})>>
         \o (IF r.err
             THEN <<Logged("LogEntry", "error",
                           {"tool", "duration"} \cup DoErrorText(request))>>
             ELSE (IF IsAuthError(r.code)
                   THEN <<Logged("logger", "received auth error from upstream, re-authenticating", {"status"})>>
                   ELSE << >>)
                  \o (IF IsSuccess(r.code)
                      THEN <<Logged("LogEntry", "success",
                                    {"tool", "duration", "preview", "formatted"})>>
                      ELSE <<Logged("LogEntry", "error",
                                    {"tool", "duration", "backendBody"})>>))
    ELSE IF endpoint = "/stream" /\ ~r.err /\ streamEnd # "eof"
    THEN <<Logged("logger", "stream " \o streamEnd \o " error", {"cause"})>>
    ELSE << >>

\* the bridge's stderr lines for a tools/list or tools/call that failed:
\* failure is how doToolsList / doToolsCall failed, reread how
\* refreshSessionToken went ("none": it was not called)
BridgeLines(method, failure, reread) ==
    (IF reread = "failed"
     THEN <<Logged("stderr", "failed to refresh session token", {"account"})>>
     ELSE << >>)
    \o <<Logged("stderr", method \o " failed",
                CASE failure = "transport" -> {"method", "url", "cause"}
                  [] failure = "status" -> {"status"}
                  [] OTHER -> {"cause"})>>

-----------------------------------------------------------------------------
(* SpecOutbound: the operations that send credentials or bearer tokens,    *)
(* step by step, against peers that answer as they like                    *)

MaxOutOps == 1

\* an entry of olog: what an operation was given and what it returned;
\* its requests are wire[from + 1 .. upto]
Returned(entry, ok, answer, setErr, sides, tokens, pre, from) ==
    [entry |-> entry, ok |-> ok, answer |-> answer, setErr |-> setErr,
     sides |-> sides, tokens |-> tokens, pre |-> pre, post |-> store',
     from |-> from, upto |-> Len(wire')]

NoAnswer == Answer("none", 0, NoBody)

\* the operation returns to its caller
Return(entry, ok, answer, setErr, sides, tokens, pre, from) ==
    /\ olog' = Append(olog, Returned(entry, ok, answer, setErr, sides, tokens, pre, from))
    /\ opc' = "idle"
    /\ oloc' = NoLocals

\* Authenticate up to its request: GetCredentials and the URL test
enterAuthenticate(entry) ==
    LET fallback == IF entry = "RefreshTokens"
                    THEN <<Logged("logger", "no refresh token available, falling back to full authentication", {})>>
                    ELSE << >>
    IN  IF ~creds \/ ~IsHTTPSOrLocal(authURL)
        THEN /\ UNCHANGED <<store, wire>>
             /\ logged' = logged \o fallback
                             \o CallerLogs(entry, IF ~creds THEN {} ELSE {"url"})
             /\ Return(entry, FALSE, NoAnswer, "none", << >>, NoTokens, store, Len(wire))
        ELSE /\ opc' = "authPost"
             /\ oloc' = [op |-> entry, pre |-> store, from |-> Len(wire)]
             /\ logged' = logged \o fallback
             /\ UNCHANGED <<store, wire, olog>>

startAuthenticate ==
    /\ opc = "idle"
    /\ Len(olog) < MaxOutOps
    /\ enterAuthenticate("Authenticate")
    /\ UNCHANGED <<authURL, mcpURL, creds, now>>
    /\ UNCHANGED <<fillVars, listenVars, raceVars, proxyVars, bridgeVars, alog, logVars, streamVars>>

\* RefreshTokens up to its request
startRefreshTokens ==
    /\ opc = "idle"
    /\ Len(olog) < MaxOutOps
    /\ IF ~GetTokensOK(store) \/ GetTokens(store).RefreshToken = 0
       THEN enterAuthenticate("RefreshTokens")
       ELSE IF ~IsHTTPSOrLocal(authURL)
       THEN /\ UNCHANGED <<store, wire>>
            /\ logged' = logged \o CallerLogs("RefreshTokens", {"url"})
            /\ Return("RefreshTokens", FALSE, NoAnswer, "none", << >>, NoTokens,
                      store, Len(wire))
       ELSE /\ opc' = "refreshPost"
            /\ oloc' = [op |-> "RefreshTokens", pre |-> store, from |-> Len(wire)]
            /\ UNCHANGED <<store, wire, olog, logged>>
    /\ UNCHANGED <<authURL, mcpURL, creds, now>>
    /\ UNCHANGED <<fillVars, listenVars, raceVars, proxyVars, bridgeVars, alog, logVars, streamVars>>

\* Authenticate: the request, the response and SetTokens
authPost ==
    /\ opc = "authPost"
    /\ \E answer \in AuthAnswers(Issued(store)) :
         LET request == Request(authURL, "/user/auth/authenticate", "credentials")
             r == Do(noRedirectClient, request, answer)
             access == AccessTokenOf(r.body)
             tokens == AuthTokens(access, access, now + TokenLife,
                                  now + 2 * TokenLife, IdentityA)
         IN  /\ wire' = wire \o r.sent
             /\ IF r.err \/ r.code # 200 \/ ~r.body.json \/ access = 0
                THEN /\ store' = store
                     /\ logged' = logged \o AuthenticateLogs(r, access)
                            \o CallerLogs(oloc.op, AuthErrorText(request, r, access))
                     /\ Return(oloc.op, FALSE, answer, "none", << >>, NoTokens,
                               oloc.pre, oloc.from)
                ELSE \E setErr \in SetTokensErrors :
                       /\ setErr = "keyring" => store.keyringOK
                       /\ store' = SetTokensEnding(store, tokens, setErr)
                       /\ logged' = logged \o AuthenticateLogs(r, access)
                            \o (IF setErr # "none"
                                THEN CallerLogs(oloc.op, {"cause"})
                                ELSE << >>)
                       /\ IF setErr # "none"
                          THEN Return(oloc.op, FALSE, answer, setErr, << >>,
                                      NoTokens, oloc.pre, oloc.from)
                          ELSE /\ opc' = "register"
                               /\ oloc' = [op |-> oloc.op, pre |-> oloc.pre,
                                           from |-> oloc.from, answer |-> answer,
                                           tokens |-> tokens, set |-> store',
                                           sides |-> << >>]
                               /\ UNCHANGED olog
    /\ UNCHANGED <<authURL, mcpURL, creds, now>>
    /\ UNCHANGED <<fillVars, listenVars, raceVars, proxyVars, bridgeVars, alog, logVars, streamVars>>

\* what a side-registration returns: nil only on status 200
SideResult(r) == IF r.err \/ r.code # 200 THEN "error" ELSE "nil"

\* RegisterWithLimitOrders, its result discarded by Authenticate
RegisterWithLimitOrders ==
    /\ opc = "register"
    /\ \E answer \in PlainAnswers :
         LET request == Request(authURL, "/limit/agents/register", "bearer")
             r == Do(noRedirectClient, request, answer)
         IN  /\ wire' = wire \o r.sent
             /\ logged' = logged \o SideLogs("limit orders registration", request, r)
             /\ oloc' = [oloc EXCEPT !.sides =
                            Append(@, [answer |-> answer, result |-> SideResult(r)])]
    /\ opc' = "walletInit"
    /\ UNCHANGED <<authURL, mcpURL, olog, authVars>>
    /\ UNCHANGED <<fillVars, listenVars, raceVars, proxyVars, bridgeVars, alog, logVars, streamVars>>

\* InitializeWalletMonitoring, its result discarded; Authenticate returns
InitializeWalletMonitoring ==
    /\ opc = "walletInit"
    /\ \E answer \in PlainAnswers :
         LET request == Request(authURL, "/portfolio/wallets/init", "bearer")
             r == Do(noRedirectClient, request, answer)
         IN  /\ wire' = wire \o r.sent
             /\ logged' = logged \o SideLogs("wallet monitoring initialization", request, r)
             /\ store' = store
             /\ Return(oloc.op, TRUE, oloc.answer, "none",
                       Append(oloc.sides, [answer |-> answer, result |-> SideResult(r)]),
                       oloc.tokens, oloc.pre, oloc.from)
    /\ UNCHANGED <<authURL, mcpURL, creds, now>>
    /\ UNCHANGED <<fillVars, listenVars, raceVars, proxyVars, bridgeVars, alog, logVars, streamVars>>

\* RefreshTokens: the request, the response and SetTokens
refreshPost ==
    /\ opc = "refreshPost"
    /\ \E answer \in AuthAnswers(Issued(store)) :
         LET request == Request(authURL, "/user/auth/refresh", "refresh")
             r == Do(noRedirectClient, request, answer)
             access == AccessTokenOf(r.body)
             tokens == [GetTokens(store) EXCEPT !.AccessToken = access,
                                                !.ExpiresAt = now + TokenLife]
         IN  /\ wire' = wire \o r.sent
             /\ IF r.err \/ r.code # 200 \/ ~r.body.json \/ access = 0
                THEN /\ store' = store
                     /\ logged' = logged \o RefreshLogs(r, access)
                            \o CallerLogs("RefreshTokens",
                                          AuthErrorText(request, r, access))
                     /\ Return("RefreshTokens", FALSE, answer, "none", << >>,
                               NoTokens, oloc.pre, oloc.from)
                ELSE \E setErr \in SetTokensErrors :
                       /\ setErr = "keyring" => store.keyringOK
                       /\ store' = SetTokensEnding(store, tokens, setErr)
                       /\ logged' = logged \o
                            (IF setErr # "none"
                             THEN CallerLogs("RefreshTokens", {"cause"})
                             ELSE << >>)
                       /\ Return("RefreshTokens", setErr = "none", answer, setErr,
                                 << >>, IF setErr = "none" THEN tokens ELSE NoTokens,
                                 oloc.pre, oloc.from)
    /\ UNCHANGED <<authURL, mcpURL, creds, now>>
    /\ UNCHANGED <<fillVars, listenVars, raceVars, proxyVars, bridgeVars, alog, logVars, streamVars>>

\* the proxy's requests to the backend; its handlers exist once
\* NewProxyServer has accepted the configured URL
BackendEndpoints == {"/tools", "/call", "/stream"}

\* handleTools, doMCPCall and handleStream send the request that carries the
\* access token; an error of client.Do fails the request
backendRequest ==
    /\ opc = "idle"
    /\ Len(olog) < MaxOutOps
    /\ IsHTTPSOrLocal(mcpURL)      \* NewProxyServer has returned a server
    /\ GetTokensOK(store)
    /\ \E endpoint \in BackendEndpoints, answer \in PlainAnswers,
          streamEnd \in {"eof", "read", "write"} :
         LET request == Request(mcpURL, endpoint, "bearer")
             r == Do(IF endpoint = "/stream" THEN streamClient ELSE noRedirectClient,
                     request, answer)
         IN  /\ wire' = wire \o r.sent
             /\ logged' = logged \o BackendLogs(endpoint, request, r, streamEnd)
             /\ store' = store
             /\ Return(endpoint, ~r.err, answer, "none", << >>, GetTokens(store),
                       store, Len(wire))
    /\ UNCHANGED <<authURL, mcpURL, creds, now>>
    /\ UNCHANGED <<fillVars, listenVars, raceVars, proxyVars, bridgeVars, alog, logVars, streamVars>>

\* NewProxyServer: the URL test, then the session token is stored
newProxyServer ==
    /\ opc = "idle"
    /\ Len(olog) < MaxOutOps
    /\ UNCHANGED <<store, wire, logged>>
    /\ Return("NewProxyServer", IsHTTPSOrLocal(mcpURL), NoAnswer, "none", << >>,
              NoTokens, store, Len(wire))
    /\ ring' = IF IsHTTPSOrLocal(mcpURL) THEN SetSessionToken(ring, SessA) ELSE ring
    /\ UNCHANGED <<authURL, mcpURL, creds, now>>
    /\ UNCHANGED <<bTok, proxyTok, restarts, stdin, stdout, stderr, bpc, bcur, bh>>
    /\ UNCHANGED <<fillVars, listenVars, raceVars, proxyVars, alog, logVars, streamVars>>

\* the bridge, a client of the proxy's /tools and /call: doToolsList or
\* doToolsCall fails and the error is written to stderr
bridgeToolsFailure ==
    /\ opc = "idle"
    /\ Len(olog) < MaxOutOps
    /\ \E method \in {"tools/list", "tools/call"},
          failure \in {"transport", "status", "body"},
          reread \in {"none", "ok", "failed"} :
         logged' = logged \o BridgeLines(method, failure, reread)
    /\ UNCHANGED <<store, wire>>
    /\ Return("bridge", FALSE, NoAnswer, "none", << >>, NoTokens, store, Len(wire))
    /\ UNCHANGED <<authURL, mcpURL, creds, now>>
    /\ UNCHANGED <<fillVars, listenVars, raceVars, proxyVars, bridgeVars, alog, logVars, streamVars>>

NextOutbound ==
    \/ bridgeToolsFailure
    \/ startAuthenticate
    \/ startRefreshTokens
    \/ authPost
    \/ RegisterWithLimitOrders
    \/ InitializeWalletMonitoring
    \/ refreshPost
    \/ backendRequest
    \/ newProxyServer


-----------------------------------------------------------------------------
(* SpecStream: handleStream copying the backend's event stream to one      *)
(* client.  The backend writes numbered chunks; each resp.Body.Read hands  *)
(* the handler the oldest chunk in flight.                                 *)

MaxChunks == 3

\* what client.Do gives handleStream: 0 is an error (transport failure or a
\* refused redirect), otherwise the backend's status
StreamAnswers == {0, 200, 500}

\* handleStream up to the response header: EnsureAuthenticated, client.Do,
\* w.WriteHeader
handleStreamOpen ==
    /\ spc = "idle"
    /\ \E out \in AuthOutcomes, answer \in StreamAnswers :
         LET r == EnsureAuthenticated(store, creds, now, out)
         IN  /\ store' = r.store
             /\ IF ~r.ok
                THEN /\ sstatus' = 401
                     /\ spc' = "done"
                     /\ UNCHANGED upConn
                ELSE IF answer = 0
                THEN /\ sstatus' = 502
                     /\ spc' = "done"
                     /\ UNCHANGED upConn
                ELSE /\ sstatus' = answer
                     /\ spc' = "read"
                     /\ upConn' = "open"
    /\ UNCHANGED <<backendSent, backendEnd, inFlight, held, clientOpen, delivered>>
    /\ UNCHANGED <<fillVars, listenVars, raceVars, creds, now, proxyVars, bridgeVars, alog, logVars, outVars>>

\* the backend writes one more chunk
backendSend ==
    /\ upConn = "open"
    /\ backendEnd = "no"
    /\ backendSent < MaxChunks
    /\ backendSent' = backendSent + 1
    /\ inFlight' = Append(inFlight, backendSent + 1)
    /\ UNCHANGED <<spc, sstatus, upConn, backendEnd, held, clientOpen, delivered>>
    /\ UNCHANGED <<fillVars, listenVars, raceVars, authVars, proxyVars, bridgeVars, alog, logVars, outVars>>

\* the backend ends the stream, in order (io.EOF) or not
backendClose ==
    /\ upConn = "open"
    /\ backendEnd = "no"
    /\ backendEnd' \in {"eof", "reset"}
    /\ UNCHANGED <<spc, sstatus, upConn, backendSent, inFlight, held, clientOpen,
                   delivered>>
    /\ UNCHANGED <<fillVars, listenVars, raceVars, authVars, proxyVars, bridgeVars, alog, logVars, outVars>>

\* the client closes its connection
clientClose ==
    /\ spc \in {"read", "write"}
    /\ clientOpen
    /\ clientOpen' = FALSE
    /\ UNCHANGED <<spc, sstatus, upConn, backendSent, backendEnd, inFlight, held,
                   delivered>>
    /\ UNCHANGED <<fillVars, listenVars, raceVars, authVars, proxyVars, bridgeVars, alog, logVars, outVars>>

\* resp.Body.Read returns: the request was built with http.NewRequest, so
\* only bytes from the backend or the end of its stream wake the read
readReady == inFlight # << >> \/ backendEnd # "no"

\* n, readErr := resp.Body.Read(buf): a chunk, or the end of the stream,
\* on which the handler returns and the deferred resp.Body.Close() runs
streamRead ==
    /\ spc = "read"
    /\ readReady
    /\ IF inFlight # << >>
       THEN /\ held' = Head(inFlight)
            /\ inFlight' = Tail(inFlight)
            /\ spc' = "write"
            /\ UNCHANGED upConn
       ELSE /\ spc' = "done"
            /\ upConn' = "closed"
            /\ UNCHANGED <<held, inFlight>>
    /\ UNCHANGED <<sstatus, backendSent, backendEnd, clientOpen, delivered>>
    /\ UNCHANGED <<fillVars, listenVars, raceVars, authVars, proxyVars, bridgeVars, alog, logVars, outVars>>

\* w.Write(buf[:n]) and flusher.Flush(): a write to a closed client fails,
\* the handler returns and the deferred resp.Body.Close() runs
streamWrite ==
    /\ spc = "write"
    /\ IF clientOpen
       THEN /\ delivered' = Append(delivered, held)
            /\ held' = 0
            /\ spc' = "read"
            /\ UNCHANGED upConn
       ELSE /\ spc' = "done"
            /\ upConn' = "closed"
            /\ UNCHANGED <<held, delivered>>
    /\ UNCHANGED <<sstatus, backendSent, backendEnd, inFlight, clientOpen>>
    /\ UNCHANGED <<fillVars, listenVars, raceVars, authVars, proxyVars, bridgeVars, alog, logVars, outVars>>

NextStream ==
    \/ handleStreamOpen
    \/ backendSend
    \/ backendClose
    \/ clientClose
    \/ streamRead
    \/ streamWrite

-----------------------------------------------------------------------------
(* Claims about handleStream (SpecStream) *)

\* C22: on GET /stream, once the client connection is closed the proxy
\* eventually aborts the upstream read and releases the upstream connection,
\* whether or not the backend sends any further bytes.
C22_ClientCloseReleasesUpstream ==
    (~clientOpen /\ upConn = "open") ~> (upConn = "closed")

\* while the client is connected, what it has received is what the backend
\* wrote, in order, less the chunks not yet read and the one being written
StreamInOrder ==
    clientOpen =>
        delivered \o (IF held = 0 THEN << >> ELSE <<held>>) \o inFlight
            = [i \in 1..backendSent |-> i]

-----------------------------------------------------------------------------
(* Claims about outbound requests (SpecOutbound) *)

\* the operations that have returned
Returns == {olog[i] : i \in 1..Len(olog)}

\* the side-registrations made so far, returned or still running
SidesSoFar ==
    UNION {{e.sides[j] : j \in 1..Len(e.sides)} : e \in Returns}
    \cup (IF opc = "walletInit"
          THEN {oloc.sides[j] : j \in 1..Len(oloc.sides)}
          ELSE {})

\* C23: a redirect answered to a request that carries credentials or a
\* bearer token (authenticate, refresh, the two side-registrations, /tools,
\* /call, /stream) makes the request fail with an error, and nothing is
\* ever sent to the redirect target.
C23_RedirectsRefused ==
    /\ \A i \in 1..Len(wire) : wire[i].to = "peer"
    /\ \A e \in Returns : e.answer.kind = "redirect" => ~e.ok
    /\ \A side \in SidesSoFar : side.answer.kind = "redirect" => side.result = "error"

\* a redirect has been answered to Authenticate, to a side-registration or
\* to a request of the proxy, and one request went out for it
C23_Witness ==
    \E e \in Returns :
        /\ e.answer.kind = "redirect"
        /\ ~e.ok
        /\ e.upto = e.from + 1
        /\ wire[e.upto].carries \in {"credentials", "bearer"}

\* the URL is an https:// URL or its host is the loopback host
HTTPSOrLoopback(urlStr) ==
    HasPrefix(urlStr, Str_https) \/ Hostname(urlStr) \in {Str_localhost, Str_127}

\* C24: with a configured URL that is not https:// and whose host is not
\* localhost or 127.0.0.1, Authenticate and RefreshTokens send nothing and
\* NewProxyServer fails: every request goes over HTTPS or to loopback.
C24_OnlyHTTPSOrLoopback ==
    /\ \A i \in 1..Len(wire) : HTTPSOrLoopback(wire[i].url)
    /\ \A e \in Returns :
         (e.entry = "NewProxyServer" /\ e.ok) => HTTPSOrLoopback(mcpURL)

\* the backend answered 200 with a non-empty access token, wrapped or not
GoodAnswer(answer) ==
    /\ answer.kind = "status"
    /\ answer.code = 200
    /\ answer.body.json
    /\ (answer.body.data # 0 \/ answer.body.direct # 0)

\* the requests an operation sent
SentBy(e) == [i \in 1..(e.upto - e.from) |-> wire[e.from + i].endpoint]

\* what C25 says of the side-registrations: they are attempted after
\* SetTokens, both whatever the first returns, and change neither the
\* result nor the stored tokens
SidesAfterSetTokens ==
    /\ opc \in {"register", "walletInit"} => store = oloc.set
    /\ \A e \in Returns :
         e.entry = "Authenticate" =>
            IF e.ok
            THEN /\ Len(e.sides) = 2
                 /\ SentBy(e) = <<"/user/auth/authenticate", "/limit/agents/register",
                                  "/portfolio/wallets/init">>
                 /\ e.post = SetTokens(e.pre, e.tokens)
            ELSE /\ e.sides = << >>
                 /\ Len(SentBy(e)) <= 1

C40_FailureLeavesTokens ==
    \A e \in Returns :
        (e.entry \in {"Authenticate", "RefreshTokens"} /\ ~e.ok
         /\ GetTokensOK(e.pre)) =>
            /\ GetTokensOK(e.post)
            /\ GetTokens(e.post) = GetTokens(e.pre)
            /\ IsTokenExpired(e.pre, now) => IsTokenExpired(e.post, now)

-----------------------------------------------------------------------------
(* Claims about the consumer of the log queue (SpecListen) *)

\* C39: every pending entry the consumer receives is eventually followed by
\* the terminal (success or error) entry of the same call: the next entry of
\* that handler the consumer receives is terminal.
C39_PendingThenTerminal ==
    \A i \in 1..(2 * MaxRounds) :
        (Len(received) >= i /\ received[i].status = "pending")
            ~> (Len(received) > i /\ received[i + 1].status \in {"success", "error"})

-----------------------------------------------------------------------------
(* Claims about concurrent SetTokens and GetTokens (SpecRace) *)

\* the fields the claim is about: access token, its expiry, the identity
Core(t) == [t EXCEPT !.RefreshToken = 0, !.RefreshExpiresAt = 0]

\* C37: whatever the interleaving, the access token, the access-token
\* expiry and the identity fields of a record GetTokens returns all come
\* from one response: the earlier login's or one handler's.
C37_OneResponse ==
    \A i \in 1..Len(seen) :
        Core(seen[i]) \in {Core(GetTokens(RaceStart))}
                          \cup {Core(ResponseTokens(w)) : w \in Writers}

-----------------------------------------------------------------------------
(* Specifications *)

NextFill == ApplyAutoFill

\* inputs of AutoFillParams; the proxy is not running
InitFill ==
    /\ spc = "idle" /\ sstatus = 0 /\ upConn = "none" /\ backendSent = 0
    /\ backendEnd = "no" /\ inFlight = << >> /\ held = 0
    /\ clientOpen = TRUE /\ delivered = << >>
    /\ authURL = DefaultAuthURL /\ mcpURL = DefaultMCPURL
    /\ wire = << >> /\ olog = << >> /\ opc = "idle" /\ oloc = NoLocals
    /\ logged = << >>
    /\ received = << >> /\ bursts = 0
    /\ wpc = [w \in Writers |-> "idle"] /\ wtok = [w \in Writers |-> NoTokens]
    /\ gloc = NoGet /\ seen = << >>
    /\ fTool \in ToolPool
    /\ fArgsIn \in ArgsPool
    /\ fArgs = fArgsIn
    /\ fTokens \in {TokensA, TokensBlank, NoTokens}
    /\ fCount = 0
    /\ store = NoStore /\ creds = FALSE /\ now = 0
    /\ sessionToken = "" /\ requestCount = 0 /\ logChan = << >> /\ calls = 0
    /\ pc = [h \in Handlers |-> "idle"]
    /\ req = [h \in Handlers |-> NoReq]
    /\ tok = [h \in Handlers |-> NoTokens]
    /\ hist = [h \in Handlers |-> NoHist]
    /\ alog = << >>
    /\ prod = [p \in Producers |-> IdleProducer]
    /\ reads = 0
    /\ bTok = "" /\ ring = NoRing /\ proxyTok = "" /\ restarts = 0
    /\ stdin = << >> /\ stdout = << >> /\ stderr = << >>
    /\ bpc = "exit" /\ bcur = NoLine /\ bh = NoBH

SpecFill == InitFill /\ [][NextFill]_vars

\* NewProxyServer has returned; tokens may be stored from an earlier run
InitCall ==
    /\ spc = "idle" /\ sstatus = 0 /\ upConn = "none" /\ backendSent = 0
    /\ backendEnd = "no" /\ inFlight = << >> /\ held = 0
    /\ clientOpen = TRUE /\ delivered = << >>
    /\ authURL = DefaultAuthURL /\ mcpURL = DefaultMCPURL
    /\ wire = << >> /\ olog = << >> /\ opc = "idle" /\ oloc = NoLocals
    /\ logged = << >>
    /\ received = << >> /\ bursts = 0
    /\ wpc = [w \in Writers |-> "idle"] /\ wtok = [w \in Writers |-> NoTokens]
    /\ gloc = NoGet /\ seen = << >>
    /\ fTool = "" /\ fArgsIn = EmptyArgs /\ fArgs = EmptyArgs
    /\ fTokens = NoTokens /\ fCount = 0
    /\ store \in {NoStore, StoredA, [StoredA EXCEPT !.refresh = 0], StoredEnv,
                  [StoredA EXCEPT !.ident = IdentityB]}
    /\ creds \in BOOLEAN
    /\ now = 0
    /\ sessionToken = SessA
    /\ requestCount = 0
    /\ logChan = << >>
    /\ calls = 0
    /\ pc = [h \in Handlers |-> "idle"]
    /\ req = [h \in Handlers |-> NoReq]
    /\ tok = [h \in Handlers |-> NoTokens]
    /\ hist = [h \in Handlers |-> NoHist]
    /\ alog = << >>
    /\ prod = [p \in Producers |-> IdleProducer]
    /\ reads = 0
    /\ bTok = "" /\ ring = NoRing /\ proxyTok = "" /\ restarts = 0
    /\ stdin = << >> /\ stdout = << >> /\ stderr = << >>
    /\ bpc = "exit" /\ bcur = NoLine /\ bh = NoBH

SpecCall == InitCall /\ [][NextCall]_vars

\* NewBridge has returned with the session token read at start-up, which a
\* proxy restart since then may have replaced; a proxy is running
InitBridge ==
    /\ spc = "idle" /\ sstatus = 0 /\ upConn = "none" /\ backendSent = 0
    /\ backendEnd = "no" /\ inFlight = << >> /\ held = 0
    /\ clientOpen = TRUE /\ delivered = << >>
    /\ authURL = DefaultAuthURL /\ mcpURL = DefaultMCPURL
    /\ wire = << >> /\ olog = << >> /\ opc = "idle" /\ oloc = NoLocals
    /\ logged = << >>
    /\ received = << >> /\ bursts = 0
    /\ wpc = [w \in Writers |-> "idle"] /\ wtok = [w \in Writers |-> NoTokens]
    /\ gloc = NoGet /\ seen = << >>
    /\ fTool = "" /\ fArgsIn = EmptyArgs /\ fArgs = EmptyArgs
    /\ fTokens = NoTokens /\ fCount = 0
    /\ store = NoStore /\ creds = FALSE /\ now = 0
    /\ sessionToken = "" /\ requestCount = 0 /\ logChan = << >> /\ calls = 0
    /\ pc = [h \in Handlers |-> "idle"]
    /\ req = [h \in Handlers |-> NoReq]
    /\ tok = [h \in Handlers |-> NoTokens]
    /\ hist = [h \in Handlers |-> NoHist]
    /\ alog = << >>
    /\ prod = [p \in Producers |-> IdleProducer]
    /\ reads = 0
    /\ \E start \in BridgeStarts : bTok = start[1] /\ ring = start[2]
    /\ proxyTok = SessA
    /\ restarts = 0
    /\ stdin \in StdinPool
    /\ stdout = << >>
    /\ stderr = << >>
    /\ bpc = "read"
    /\ bcur = NoLine
    /\ bh = NoBH

SpecBridge == InitBridge /\ [][NextBridge]_vars

\* a CLI process before its first call into package auth
InitAuth ==
    /\ spc = "idle" /\ sstatus = 0 /\ upConn = "none" /\ backendSent = 0
    /\ backendEnd = "no" /\ inFlight = << >> /\ held = 0
    /\ clientOpen = TRUE /\ delivered = << >>
    /\ authURL = DefaultAuthURL /\ mcpURL = DefaultMCPURL
    /\ wire = << >> /\ olog = << >> /\ opc = "idle" /\ oloc = NoLocals
    /\ logged = << >>
    /\ received = << >> /\ bursts = 0
    /\ wpc = [w \in Writers |-> "idle"] /\ wtok = [w \in Writers |-> NoTokens]
    /\ gloc = NoGet /\ seen = << >>
    /\ fTool = "" /\ fArgsIn = EmptyArgs /\ fArgs = EmptyArgs
    /\ fTokens = NoTokens /\ fCount = 0
    /\ store \in AuthStores
    /\ creds \in BOOLEAN
    /\ now \in {0, TokenLife - Skew}
    /\ alog = << >>
    /\ prod = [p \in Producers |-> IdleProducer]
    /\ reads = 0
    /\ sessionToken = "" /\ requestCount = 0 /\ logChan = << >> /\ calls = 0
    /\ pc = [h \in Handlers |-> "idle"]
    /\ req = [h \in Handlers |-> NoReq]
    /\ tok = [h \in Handlers |-> NoTokens]
    /\ hist = [h \in Handlers |-> NoHist]
    /\ bTok = "" /\ ring = NoRing /\ proxyTok = "" /\ restarts = 0
    /\ stdin = << >> /\ stdout = << >> /\ stderr = << >>
    /\ bpc = "exit" /\ bcur = NoLine /\ bh = NoBH

SpecAuth == InitAuth /\ [][NextAuth]_vars

\* a running proxy whose log queue is one short of full, or full;
\* only the handlers are scheduled fairly, the consumer need not read
InitLog ==
    /\ spc = "idle" /\ sstatus = 0 /\ upConn = "none" /\ backendSent = 0
    /\ backendEnd = "no" /\ inFlight = << >> /\ held = 0
    /\ clientOpen = TRUE /\ delivered = << >>
    /\ authURL = DefaultAuthURL /\ mcpURL = DefaultMCPURL
    /\ wire = << >> /\ olog = << >> /\ opc = "idle" /\ oloc = NoLocals
    /\ logged = << >>
    /\ received = << >> /\ bursts = 0
    /\ wpc = [w \in Writers |-> "idle"] /\ wtok = [w \in Writers |-> NoTokens]
    /\ gloc = NoGet /\ seen = << >>
    /\ fTool = "" /\ fArgsIn = EmptyArgs /\ fArgs = EmptyArgs
    /\ fTokens = NoTokens /\ fCount = 0
    /\ store = NoStore /\ creds = FALSE /\ now = 0
    /\ alog = << >>
    /\ prod = [p \in Producers |-> IdleProducer]
    /\ reads = 0
    /\ sessionToken = SessA /\ requestCount = 0 /\ calls = 0
    /\ logChan \in {Backlog(LogChanCap - 1), Backlog(LogChanCap)}
    /\ pc = [h \in Handlers |-> "idle"]
    /\ req = [h \in Handlers |-> NoReq]
    /\ tok = [h \in Handlers |-> NoTokens]
    /\ hist = [h \in Handlers |-> NoHist]
    /\ bTok = "" /\ ring = NoRing /\ proxyTok = "" /\ restarts = 0
    /\ stdin = << >> /\ stdout = << >> /\ stderr = << >>
    /\ bpc = "exit" /\ bcur = NoLine /\ bh = NoBH

SpecLog ==
    /\ InitLog
    /\ [][NextLog]_vars
    /\ \A p \in Producers : WF_vars(produceFinish(p))


\* a GET /stream request has passed withAuth
InitStream ==
    /\ fTool = "" /\ fArgsIn = EmptyArgs /\ fArgs = EmptyArgs
    /\ fTokens = NoTokens /\ fCount = 0
    /\ store \in {NoStore, StoredA, [StoredA EXCEPT !.refresh = 0]}
    /\ creds \in BOOLEAN
    /\ now \in {0, TokenLife}
    /\ sessionToken = SessA /\ requestCount = 0 /\ logChan = << >> /\ calls = 0
    /\ pc = [h \in Handlers |-> "idle"]
    /\ req = [h \in Handlers |-> NoReq]
    /\ tok = [h \in Handlers |-> NoTokens]
    /\ hist = [h \in Handlers |-> NoHist]
    /\ alog = << >>
    /\ prod = [p \in Producers |-> IdleProducer]
    /\ reads = 0
    /\ bTok = "" /\ ring = NoRing /\ proxyTok = "" /\ restarts = 0
    /\ stdin = << >> /\ stdout = << >> /\ stderr = << >>
    /\ bpc = "exit" /\ bcur = NoLine /\ bh = NoBH
    /\ spc = "idle" /\ sstatus = 0 /\ upConn = "none" /\ backendSent = 0
    /\ backendEnd = "no" /\ inFlight = << >> /\ held = 0
    /\ clientOpen = TRUE /\ delivered = << >>
    /\ authURL = DefaultAuthURL /\ mcpURL = DefaultMCPURL
    /\ wire = << >> /\ olog = << >> /\ opc = "idle" /\ oloc = NoLocals
    /\ logged = << >>
    /\ received = << >> /\ bursts = 0
    /\ wpc = [w \in Writers |-> "idle"] /\ wtok = [w \in Writers |-> NoTokens]
    /\ gloc = NoGet /\ seen = << >>

\* the handler goroutine keeps running; nothing obliges the backend to send
\* or the client to stay
SpecStream ==
    /\ InitStream
    /\ [][NextStream]_vars
    /\ WF_vars(handleStreamOpen)
    /\ WF_vars(streamRead)
    /\ WF_vars(streamWrite)


\* a CLI process with its configuration loaded, before any request
InitOutbound ==
    /\ fTool = "" /\ fArgsIn = EmptyArgs /\ fArgs = EmptyArgs
    /\ fTokens = NoTokens /\ fCount = 0
    /\ store \in {NoStore, StoredA, [StoredA EXCEPT !.refresh = 0], StoredEnv,
                  [NoStore EXCEPT !.keyringOK = FALSE], [StoredA EXCEPT !.exp = 0]}
    /\ creds \in BOOLEAN
    /\ now = 0
    /\ sessionToken = "" /\ requestCount = 0 /\ logChan = << >> /\ calls = 0
    /\ pc = [h \in Handlers |-> "idle"]
    /\ req = [h \in Handlers |-> NoReq]
    /\ tok = [h \in Handlers |-> NoTokens]
    /\ hist = [h \in Handlers |-> NoHist]
    /\ alog = << >>
    /\ prod = [p \in Producers |-> IdleProducer]
    /\ reads = 0
    /\ bTok = "" /\ ring = NoRing /\ proxyTok = "" /\ restarts = 0
    /\ stdin = << >> /\ stdout = << >> /\ stderr = << >>
    /\ bpc = "exit" /\ bcur = NoLine /\ bh = NoBH
    /\ spc = "idle" /\ sstatus = 0 /\ upConn = "none" /\ backendSent = 0
    /\ backendEnd = "no" /\ inFlight = << >> /\ held = 0
    /\ clientOpen = TRUE /\ delivered = << >>
    /\ authURL \in URLPool
    /\ mcpURL \in {DefaultMCPURL, Str_plainRemote, Str_httpLocalhost \o <<".", "e", "v", "i", "l", ".", "i", "o">>}
    /\ wire = << >> /\ olog = << >> /\ opc = "idle" /\ oloc = NoLocals
    /\ logged = << >>
    /\ received = << >> /\ bursts = 0
    /\ wpc = [w \in Writers |-> "idle"] /\ wtok = [w \in Writers |-> NoTokens]
    /\ gloc = NoGet /\ seen = << >>

SpecOutbound == InitOutbound /\ [][NextOutbound]_vars

\* a running proxy with an empty log queue and the UI listening; the
\* watched handler and the UI are scheduled fairly
InitListen ==
    /\ spc = "idle" /\ sstatus = 0 /\ upConn = "none" /\ backendSent = 0
    /\ backendEnd = "no" /\ inFlight = << >> /\ held = 0
    /\ clientOpen = TRUE /\ delivered = << >>
    /\ authURL = DefaultAuthURL /\ mcpURL = DefaultMCPURL
    /\ wire = << >> /\ olog = << >> /\ opc = "idle" /\ oloc = NoLocals
    /\ logged = << >>
    /\ received = << >> /\ bursts = 0
    /\ wpc = [w \in Writers |-> "idle"] /\ wtok = [w \in Writers |-> NoTokens]
    /\ gloc = NoGet /\ seen = << >>
    /\ fTool = "" /\ fArgsIn = EmptyArgs /\ fArgs = EmptyArgs
    /\ fTokens = NoTokens /\ fCount = 0
    /\ store = NoStore /\ creds = FALSE /\ now = 0
    /\ alog = << >>
    /\ prod = [p \in Producers |-> IdleProducer]
    /\ reads = 0
    /\ sessionToken = "" /\ requestCount = 0 /\ logChan = << >> /\ calls = 0
    /\ pc = [h \in Handlers |-> "idle"]
    /\ req = [h \in Handlers |-> NoReq]
    /\ tok = [h \in Handlers |-> NoTokens]
    /\ hist = [h \in Handlers |-> NoHist]
    /\ bTok = "" /\ ring = NoRing /\ proxyTok = "" /\ restarts = 0
    /\ stdin = << >> /\ stdout = << >> /\ stderr = << >>
    /\ bpc = "exit" /\ bcur = NoLine /\ bh = NoBH

SpecListen ==
    /\ InitListen
    /\ [][NextListen]_vars
    /\ WF_vars(listenForLogs)
    /\ WF_vars(produceFinish(Watched))
    /\ WF_vars(produceReturn(Watched))

\* a running proxy holding the tokens of an earlier login; two handlers
\* re-authenticate while a third reads the tokens
InitRace ==
    /\ spc = "idle" /\ sstatus = 0 /\ upConn = "none" /\ backendSent = 0
    /\ backendEnd = "no" /\ inFlight = << >> /\ held = 0
    /\ clientOpen = TRUE /\ delivered = << >>
    /\ authURL = DefaultAuthURL /\ mcpURL = DefaultMCPURL
    /\ wire = << >> /\ olog = << >> /\ opc = "idle" /\ oloc = NoLocals
    /\ logged = << >>
    /\ received = << >> /\ bursts = 0
    /\ wpc = [w \in Writers |-> "idle"] /\ wtok = [w \in Writers |-> NoTokens]
    /\ gloc = NoGet /\ seen = << >>
    /\ fTool = "" /\ fArgsIn = EmptyArgs /\ fArgs = EmptyArgs
    /\ fTokens = NoTokens /\ fCount = 0
    /\ store = RaceStart /\ creds = TRUE /\ now = AuthTickStep
    /\ alog = << >>
    /\ prod = [p \in Producers |-> IdleProducer]
    /\ reads = 0
    /\ sessionToken = "" /\ requestCount = 0 /\ logChan = << >> /\ calls = 0
    /\ pc = [h \in Handlers |-> "idle"]
    /\ req = [h \in Handlers |-> NoReq]
    /\ tok = [h \in Handlers |-> NoTokens]
    /\ hist = [h \in Handlers |-> NoHist]
    /\ bTok = "" /\ ring = NoRing /\ proxyTok = "" /\ restarts = 0
    /\ stdin = << >> /\ stdout = << >> /\ stderr = << >>
    /\ bpc = "exit" /\ bcur = NoLine /\ bh = NoBH

SpecRace == InitRace /\ [][NextRace]_vars

=============================================================================
